---- MODULE Spec2Model ----
(***************************************************************************)
(* Field-line-following grid interpolation of the XGC loader               *)
(* (sdp/plasma/xgc/loader.py).                                             *)
(*                                                                         *)
(* Angles are integers: one unit is 1/AngRes of the tracer's sub-step      *)
(* dphi = dPhi/Nstep, so the inter-plane spacing dPhi is Nstep*AngRes      *)
(* units and 2*pi is n_plane*dPhi units.  Lengths and field values are     *)
(* integers; NaN stands for every undefined / non-finite floating value.   *)
(***************************************************************************)
EXTENDS Integers, Sequences, FiniteSets, TLC

\* ---------------------------------------------------------------- bounds
MaxPlanes == 2          \* plane counts 1..MaxPlanes are enumerated in full
AngRes == 2             \* angle units per tracer sub-step
Nstep == 3              \* the tracer's argument Nstep: sub-steps per plane gap

MeshRad == 2            \* half-width of the diamond-shaped poloidal mesh

\* plane counts of the bracketing runs: all small ones and the 16-plane case
PlaneCounts == (1..MaxPlanes) \cup {16}

VARIABLES
    pc,          \* position in the operation being run
    n_plane,     \* self.n_plane
    CO_DIR,      \* self.CO_DIR
    phi3D,       \* self.grid.phi3D, flattened: a sequence of angles
    prevplane,   \* self.prevplane, flattened
    nextplane,   \* self.nextplane, flattened
    r3D,         \* self.grid.r3D, flattened
    z3D,         \* self.grid.z3D, flattened
    Bfield,      \* the node data behind BR_interp, BZ_interp, BPhi_interp
    maskData,    \* what numpy.ma leaves as data under a masked quotient
    phiFWD,      \* remaining angle of the forward trace, per point
    phiBWD,      \* remaining angle of the backward trace, per point
    R_FWD, Z_FWD, s_FWD,
    R_BWD, Z_BWD, s_BWD,
    ind,         \* the points still to be integrated
    interp_positions,
    dne_ad_on_grid,
    grid,        \* self.grid: the grid object installed in the loader
    dimension,   \* self.dimension
    planes,      \* self.planes
    on_grid,     \* what the on-grid arrays were computed from
    outcome,     \* how the last constructor / change_grid call ended
    time_steps,  \* len(self.time_steps)
    n_cross_section,
    HaveElectron,
    load_ions,
    files,       \* the content of the xgc.3d.*.h5 files, per dataset
    center_planes,
    fluc,        \* self.phi, self.nane, self.dni
    ne0, ni0,
    dne_ad,      \* self.dne_ad
    nane_on_grid,
    dni_on_grid,
    dni_ad_on_grid, \* the attribute a 2D pass leaves behind, by its shape
    loop_ki,     \* the loop variables (k, i) of interpolate_all_on_grid_3D
    equilibrium_mesh,
    psi,         \* self.psi: the node data behind psi_interp
    B_total,     \* self.B_total: the node data behind B_interp
    p_boundary,  \* self.points[hull.vertices]
    psi_on_grid,
    B_on_grid,
    Bcomp_on_grid, \* BR_on_grid, BZ_on_grid, BPhi_on_grid or BX_, BY_, BZ_on_grid
    phi_on_grid,
    te0,            \* self.te0 on the mesh nodes
    Fluc_Filtering,
    back_interp,    \* what the RectBivariateSpline objects of interp_check evaluate to
    check_report,   \* what interp_check returned, per tolerance it was called with
    nefile,         \* the content of the .npz file written by save
    request,        \* the grid argument of the last constructor / change_grid call
    nextnode,       \* self.nextnode, read from the mesh file
    prevnode,       \* self.prevnode
    written,        \* per attribute: never assigned, assigned in an earlier
                    \* pass, or assigned in the pass being run
    todo,           \* the steps the pass being run has still to call
    Fluc_Only       \* self.Fluc_Only

gridVars == <<n_plane, CO_DIR, phi3D, r3D, z3D, Bfield, maskData>>
planeVars == <<prevplane, nextplane>>
fwdVars == <<phiFWD, R_FWD, Z_FWD, s_FWD>>
bwdVars == <<phiBWD, R_BWD, Z_BWD, s_BWD>>
traceVars == <<fwdVars, bwdVars, ind, interp_positions, dne_ad_on_grid>>

loaderVars == <<grid, dimension, planes, on_grid, outcome>>
flucVars == <<time_steps, n_cross_section, HaveElectron, load_ions, files,
              center_planes, fluc, ne0, ni0>>
interpVars == <<dne_ad, nane_on_grid, dni_on_grid, dni_ad_on_grid, loop_ki>>
eqVars == <<equilibrium_mesh, psi, B_total, p_boundary, psi_on_grid, B_on_grid,
            Bcomp_on_grid>>

auxVars == <<phi_on_grid, te0, Fluc_Filtering, back_interp, check_report, nefile>>

passVars == <<written, todo, Fluc_Only>>
nodeVars == <<nextnode, prevnode, passVars>>

\* everything the bracketing and the tracer leave alone
nonTraceVars == <<loaderVars, flucVars, interpVars, eqVars, auxVars, request, nodeVars>>

vars == <<pc, gridVars, planeVars, traceVars, nonTraceVars>>

\* ------------------------------------------------------ plane bracketing
dPhi == Nstep * AngRes                       \* 2*pi / n_plane
dphi == AngRes                               \* dPhi / Nstep
TwoPi(P) == P * dPhi
Angles(P) == 0 .. (TwoPi(P) - 1)             \* [0, 2*pi)

\* np.arange(n_plane) * dPHI, indexed from 0
phi_planes(P) == [k \in 0 .. (P - 1) |-> k * dPhi]

\* np.searchsorted(a, v, side = 'left'): the number of entries < v
searchsorted_left(a, P, v) == Cardinality({k \in 0 .. (P - 1) : a[k] < v})

\* np.searchsorted(a, v, side = 'right') on the sorted array a of length P:
\* the number of entries <= v
searchsorted_right(a, P, v) == Cardinality({k \in 0 .. (P - 1) : a[k] <= v})

\* nextplane[np.nonzero(nextplane == n_plane)] = 0
WrapNoReset(P, idx) == idx
WrapPlane(P, idx) == IF idx = P THEN 0 ELSE idx

\* get_interp_planes for one grid point: <<prevplane, nextplane>>
get_interp_planes(P, co, phi) ==
    LET found == searchsorted_right(phi_planes(P), P, phi)
    IN  IF co
        THEN <<found - 1, WrapPlane(P, found)>>
        ELSE <<WrapPlane(P, found), found - 1>>

NoField == [kind |-> "none", sgn |-> 1]

\* the tracer's arrays before find_interp_positions_v2_upgrade is entered
TraceIdle ==
    /\ phiFWD = <<>> /\ R_FWD = <<>> /\ Z_FWD = <<>> /\ s_FWD = <<>>
    /\ phiBWD = <<>> /\ R_BWD = <<>> /\ Z_BWD = <<>> /\ s_BWD = <<>>
    /\ ind = <<>>
    /\ interp_positions = <<>>
    /\ dne_ad_on_grid = <<>>

NoGrid == [kind |-> "none"]

\* no XGC_Loader is involved
LoaderIdle ==
    /\ grid = NoGrid /\ dimension = 0 /\ planes = <<>>
    /\ on_grid = <<>> /\ outcome = "none"

\* no fluctuation file is involved
FlucIdle ==
    /\ time_steps = 0 /\ n_cross_section = 1
    /\ HaveElectron = FALSE /\ load_ions = FALSE
    /\ files = <<>> /\ center_planes = <<>>
    /\ fluc = <<>> /\ ne0 = <<>> /\ ni0 = <<>>

\* no fluctuation has been put on a grid
InterpIdle ==
    /\ dne_ad = <<>> /\ nane_on_grid = <<>> /\ dni_on_grid = <<>>
    /\ dni_ad_on_grid = "absent" /\ loop_ki = <<0, 0>>

\* no equilibrium has been put on a grid
EqIdle ==
    /\ equilibrium_mesh = "2D"
    /\ psi = <<>> /\ B_total = <<>> /\ p_boundary = <<>>
    /\ psi_on_grid = <<>> /\ B_on_grid = <<>> /\ Bcomp_on_grid = <<>>

\* no 2D pass, filtering, self-check or save file is involved
PassIdle == written = <<>> /\ todo = <<>> /\ Fluc_Only = TRUE
NodeIdle == nextnode = <<>> /\ prevnode = <<>> /\ PassIdle

AuxIdle ==
    /\ phi_on_grid = <<>> /\ te0 = <<>> /\ Fluc_Filtering = FALSE
    /\ back_interp = <<>> /\ check_report = <<>> /\ nefile = <<>>
    /\ request = NoGrid /\ NodeIdle

Len1or2(P) == IF P <= MaxPlanes THEN {1, 2} ELSE {1}

InitPlanes ==
    /\ pc = "planes"
    /\ n_plane \in PlaneCounts
    /\ CO_DIR \in BOOLEAN
    /\ \E n \in Len1or2(n_plane) : phi3D \in [1 .. n -> Angles(n_plane)]
    /\ prevplane = <<>>
    /\ nextplane = <<>>
    /\ r3D = <<>> /\ z3D = <<>>
    /\ Bfield = NoField /\ maskData = "nan"
    /\ TraceIdle
    /\ LoaderIdle
    /\ FlucIdle
    /\ InterpIdle
    /\ EqIdle
    /\ AuxIdle

GetInterpPlanes ==
    /\ pc = "planes"
    /\ prevplane' = [i \in DOMAIN phi3D |-> get_interp_planes(n_plane, CO_DIR, phi3D[i])[1]]
    /\ nextplane' = [i \in DOMAIN phi3D |-> get_interp_planes(n_plane, CO_DIR, phi3D[i])[2]]
    /\ pc' = "planes_done"
    /\ UNCHANGED <<gridVars, traceVars, nonTraceVars>>

NextPlanes == GetInterpPlanes

SpecPlanes == InitPlanes /\ [][NextPlanes]_vars

\* ------------------------------------------------------------------ C1
\* C1: with a co-current field, for every phi in [0, 2*pi) and every plane
\* count P >= 1, get_interp_planes returns prev = floor(phi*P/(2*pi)) and
\* next = (prev + 1) mod P, both in 0..P-1; phi = 2*pi - eps with P = 16
\* gives (15, 0).
C1_CoCurrentBracket ==
    (pc = "planes_done" /\ CO_DIR) =>
        \A i \in DOMAIN phi3D :
            /\ prevplane[i] = phi3D[i] \div dPhi
            /\ nextplane[i] = (prevplane[i] + 1) % n_plane
            /\ prevplane[i] \in 0 .. (n_plane - 1)
            /\ nextplane[i] \in 0 .. (n_plane - 1)
            /\ (n_plane = 16 /\ phi3D[i] = TwoPi(16) - 1) =>
                   (prevplane[i] = 15 /\ nextplane[i] = 0)

C1_Witness ==
    /\ pc = "planes_done" /\ CO_DIR /\ n_plane = 16
    /\ phi3D[1] = TwoPi(16) - 1
    /\ prevplane[1] = 15 /\ nextplane[1] = 0

\* ------------------------------------------------------------ arithmetic
\* NaN stands for every undefined value: a masked interpolant value, and
\* whatever IEEE arithmetic makes of one.
NaN == 0 - 1000000
IsFinite(x) == x # NaN
Abs(x) == IF x < 0 THEN 0 - x ELSE x
Add(a, b) == IF a = NaN \/ b = NaN THEN NaN ELSE a + b
Mul(a, b) == IF a = NaN \/ b = NaN THEN NaN ELSE a * b
\* a / b rounded toward zero; x / 0 is not finite
Quot(a, b) ==
    IF a = NaN \/ b = NaN \/ b = 0 THEN NaN
    ELSE LET q == Abs(a) \div Abs(b)
         IN  IF (a < 0) = (b < 0) THEN q ELSE 0 - q
ISqrt(n) == CHOOSE r \in 0 .. n : r * r <= n /\ (r + 1) * (r + 1) > n

\* ------------------------------------------------------------- the mesh
\* self.points: <<Z, R>> of every node.  The nodes are all lattice points of
\* a diamond around (Z, R) = (0, Rc), so a lattice point is inside the
\* convex hull exactly when it is a node, and an interpolant evaluated there
\* returns the node's value.
Rc == MeshRad + 2
MeshNodes ==
    {p \in ((0 - MeshRad) .. MeshRad) \X ((Rc - MeshRad) .. (Rc + MeshRad)) :
        Abs(p[1]) + Abs(p[2] - Rc) <= MeshRad}
InHull(z, r) == <<z, r>> \in MeshNodes

\* B node data (load_B_3D): B[:,0], B[:,1], B[:,2] at node <<z, r>>
FieldKinds == {"toroidal", "helical"}
BRnode(z, r) == IF Bfield.kind = "helical" THEN 0 - z ELSE 0
BZnode(z, r) == IF Bfield.kind = "helical" THEN r - Rc ELSE 0
BPhinode(z, r) == Bfield.sgn * r

\* cubic_interp(self.triangulation, values, trifinder): masked outside the hull
BR_interp(z, r) == IF InHull(z, r) THEN BRnode(z, r) ELSE NaN
BZ_interp(z, r) == IF InHull(z, r) THEN BZnode(z, r) ELSE NaN
BPhi_interp(z, r) == IF InHull(z, r) THEN BPhinode(z, r) ELSE NaN

\* ------------------------------------------------------------ the tracer
\* runge_kutta_explicit(2): the 2-stage scheme, a[1,0] = a10n/a10d,
\* b = <<b[1], b[2]>>/bd
runge_kutta_explicit == [a10n |-> 1, a10d |-> 2, b |-> <<0, 2>>, bd |-> 2, Nstage |-> 2]

\* BRtemp[~np.isfinite(BRtemp)] = 0
Clean(b) == IF IsFinite(b) THEN b ELSE 0

\* x / BPhitemp where BPhitemp may be masked: the quotient is masked, and the
\* plain array K receives the data under the mask, which numpy.ma does not
\* specify: the IEEE quotient (NaN), the first operand put back, or the
\* operation's fill value (0).
MaskModes == {"nan", "first", "fill"}
MaskedQuot(num, den) ==
    IF den = NaN
    THEN CASE maskData = "nan" -> NaN
           [] maskData = "first" -> num
           [] OTHER -> 0
    ELSE Quot(num, den)

\* np.sqrt(1.0 + (BRtemp/BPhitemp)**2 + (BZtemp/BPhitemp)**2) * Rtemp, as
\* sqrt(R^2 + (R*BR/BPhi)^2 + (R*BZ/BPhi)^2) for R >= 0
ArcRate(r, br, bz, bp) ==
    IF bp = NaN
    THEN CASE maskData = "nan" -> NaN
           [] maskData = "first" -> 1
           [] OTHER -> 0
    ELSE IF r = NaN THEN NaN
    ELSE LET x == Quot(r * br, bp)
             y == Quot(r * bz, bp)
         IN  ISqrt(r * r + x * x + y * y)

\* K[:,0,i], K[:,1,i], K[:,2,i] of one point at the stage position (Ztemp, Rtemp)
KStage(Ztemp, Rtemp) ==
    LET BPhitemp == BPhi_interp(Ztemp, Rtemp)
        BRtemp == Clean(BR_interp(Ztemp, Rtemp))
        BZtemp == Clean(BZ_interp(Ztemp, Rtemp))
    IN  << MaskedQuot(Mul(Rtemp, BRtemp), BPhitemp),
           MaskedQuot(Mul(Rtemp, BZtemp), BPhitemp),
           ArcRate(Rtemp, BRtemp, BZtemp, BPhitemp) >>

\* step * (n/d) * k in lattice units: a full sub-step dphi moves by k
StepTimes(step, n, k, d) ==
    IF k = NaN THEN NaN ELSE Quot(step * n * k, d * AngRes)

\* step[np.abs(step) > dphi] = sign * dphi
StepSize(rem, sign) == IF Abs(rem) > dphi THEN sign * dphi ELSE rem

\* the loop body with the rows of K mixed up: dR summed from the arc-rate row
RKStepArcAsR(Z, R, step) ==
    LET rk == runge_kutta_explicit
        K1 == KStage(Z, R)
        Rtemp == Add(R, StepTimes(step, rk.a10n, K1[1], rk.a10d))
        Ztemp == Add(Z, StepTimes(step, rk.a10n, K1[2], rk.a10d))
        K2 == KStage(Ztemp, Rtemp)
        bsum(i) == Add(Mul(rk.b[1], K1[i]), Mul(rk.b[2], K2[i]))
    IN  << StepTimes(step, 1, bsum(2), rk.bd),
           StepTimes(step, 1, bsum(3), rk.bd),
           Mul(Abs(step), bsum(3)) >>

\* one pass of the while-loop body for one point: the increments
\* <<dZ, dR, ds>> of a step of size step from (Z, R)
RKStep(Z, R, step) ==
    LET rk == runge_kutta_explicit
        K1 == KStage(Z, R)
        Rtemp == Add(R, StepTimes(step, rk.a10n, K1[1], rk.a10d))
        Ztemp == Add(Z, StepTimes(step, rk.a10n, K1[2], rk.a10d))
        K2 == KStage(Ztemp, Rtemp)
        bsum(i) == Add(Mul(rk.b[1], K1[i]), Mul(rk.b[2], K2[i]))
    IN  << StepTimes(step, 1, bsum(2), rk.bd),
           StepTimes(step, 1, bsum(1), rk.bd),
           Mul(Abs(step), bsum(3)) >>

\* lines 66-75: the angle from the query point to the next / previous plane
PhiToNext(P, co, nxt, phi) ==
    IF co /\ nxt = 0 THEN TwoPi(P) - phi ELSE phi_planes(P)[nxt] - phi
\* the previous plane's angle minus phi, plane 0 not taken as 2*pi
PhiToPrevNoWrap(P, co, prv, phi) == phi_planes(P)[prv] - phi
PhiToPrev(P, co, prv, phi) ==
    IF ~co /\ prv = 0 THEN TwoPi(P) - phi ELSE phi_planes(P)[prv] - phi
FWD_sign == IF CO_DIR THEN 1 ELSE 0 - 1
BWD_sign == IF CO_DIR THEN 0 - 1 ELSE 1

Pts == DOMAIN phi3D

\* lines 42-88: the arrays at the entry of the forward loop
TraceStart ==
    /\ pc = "planes_done"
    /\ Bfield.kind \in FieldKinds
    /\ phiFWD' = [i \in Pts |-> PhiToNext(n_plane, CO_DIR, nextplane[i], phi3D[i])]
    /\ phiBWD' = [i \in Pts |-> PhiToPrev(n_plane, CO_DIR, prevplane[i], phi3D[i])]
    /\ R_FWD' = r3D /\ R_BWD' = r3D
    /\ Z_FWD' = z3D /\ Z_BWD' = z3D
    /\ s_FWD' = [i \in Pts |-> 0]
    /\ s_BWD' = [i \in Pts |-> 0]
    /\ ind' = [i \in Pts |-> TRUE]
    /\ pc' = "fwd"
    /\ UNCHANGED <<gridVars, planeVars, interp_positions, dne_ad_on_grid, nonTraceVars>>

\* every entry holds
AllTrue(b) == \A i \in DOMAIN b : b[i]
\* ind.any() (lines 90, 133)
AnyTrue(b) == \E i \in DOMAIN b : b[i]

\* x[ind] -= step, x[ind] += dx (lines 95, 124-126 and 138, 167-169): the
\* entry of a point is replaced only where ind holds
UpdateWhere(b, new, old) == IF b THEN new ELSE old

\* lines 90-128: one iteration of the forward while-loop
FwdStep ==
    /\ pc = "fwd"
    /\ AnyTrue(ind)
    /\ LET step == [i \in Pts |-> StepSize(phiFWD[i], FWD_sign)]
           d == [i \in Pts |-> RKStep(Z_FWD[i], R_FWD[i], step[i])]
           rem == [i \in Pts |-> UpdateWhere(ind[i], phiFWD[i] - step[i], phiFWD[i])]
       IN  /\ phiFWD' = rem
           /\ s_FWD' = [i \in Pts |-> UpdateWhere(ind[i], Add(s_FWD[i], d[i][3]), s_FWD[i])]
           /\ Z_FWD' = [i \in Pts |-> UpdateWhere(ind[i], Add(Z_FWD[i], d[i][1]), Z_FWD[i])]
           /\ R_FWD' = [i \in Pts |-> UpdateWhere(ind[i], Add(R_FWD[i], d[i][2]), R_FWD[i])]
           /\ ind' = [i \in Pts |-> rem[i] # 0]
    /\ UNCHANGED <<pc, gridVars, planeVars, bwdVars, interp_positions, dne_ad_on_grid, nonTraceVars>>

\* lines 130-131: the forward loop is left, ind is set again
FwdDone ==
    /\ pc = "fwd"
    /\ ~AnyTrue(ind)
    /\ ind' = [i \in Pts |-> TRUE]
    /\ pc' = "bwd"
    /\ UNCHANGED <<gridVars, planeVars, fwdVars, bwdVars, interp_positions, dne_ad_on_grid, nonTraceVars>>

\* lines 133-171: one iteration of the backward while-loop
BwdStep ==
    /\ pc = "bwd"
    /\ AnyTrue(ind)
    /\ LET step == [i \in Pts |-> StepSize(phiBWD[i], BWD_sign)]
           d == [i \in Pts |-> RKStep(Z_BWD[i], R_BWD[i], step[i])]
           rem == [i \in Pts |-> UpdateWhere(ind[i], phiBWD[i] - step[i], phiBWD[i])]
       IN  /\ phiBWD' = rem
           /\ s_BWD' = [i \in Pts |-> UpdateWhere(ind[i], Add(s_BWD[i], d[i][3]), s_BWD[i])]
           /\ Z_BWD' = [i \in Pts |-> UpdateWhere(ind[i], Add(Z_BWD[i], d[i][1]), Z_BWD[i])]
           /\ R_BWD' = [i \in Pts |-> UpdateWhere(ind[i], Add(R_BWD[i], d[i][2]), R_BWD[i])]
           /\ ind' = [i \in Pts |-> rem[i] # 0]
    /\ UNCHANGED <<pc, gridVars, planeVars, fwdVars, interp_positions, dne_ad_on_grid, nonTraceVars>>

\* a blend fraction n/d, or NaN
NaNFrac == [n |-> NaN, d |-> 1]
Frac(n, d) == IF n = NaN \/ d = NaN \/ d = 0 THEN NaNFrac ELSE [n |-> n, d |-> d]
OneMinus(f) == IF f.n = NaN THEN NaNFrac ELSE [n |-> f.d - f.n, d |-> f.d]

\* lines 173-182: interp_positions[0] = (Z_BWD, R_BWD, s_BWD/(s_BWD+s_FWD)),
\* interp_positions[1] = (Z_FWD, R_FWD, 1 - interp_positions[0,2])
PositionsOf(i) ==
    LET f0 == Frac(s_BWD[i], Add(s_BWD[i], s_FWD[i]))
    IN  << <<Z_BWD[i], R_BWD[i], f0>>, <<Z_FWD[i], R_FWD[i], OneMinus(f0)>> >>

BwdDone ==
    /\ pc = "bwd"
    /\ ~AnyTrue(ind)
    /\ interp_positions' = [i \in Pts |-> PositionsOf(i)]
    /\ pc' = "traced"
    /\ UNCHANGED <<gridVars, planeVars, fwdVars, bwdVars, ind, dne_ad_on_grid, nonTraceVars>>


\* ------------------------------------------------- blending on the grid
\* the per-plane node data of a stored quantity: self.dne_ad[0, 0, j, :] is
\* the data of plane self.planes[j]; distinct on every plane and node
PlaneData(p, z, r) == 100 * (p + 1) + 10 * (z + MeshRad + 1) + (r - Rc + MeshRad + 1)

\* CloughTocher2DInterpolator(self.Delaunay, values, fill_value = 0)((Z, R))
CloughTocher(p, z, r) == IF InHull(z, r) THEN PlaneData(p, z, r) ELSE 0

\* prev * interp_positions[1,2] + next * interp_positions[0,2]
Blend(pv, nv, f1, f0) ==
    IF f0.n = NaN \/ f1.n = NaN THEN NaNFrac
    ELSE [n |-> pv * f1.n + nv * f0.n, d |-> f0.d]

\* lines 1235-1253 for the adiabatic density: the value of point i
BlendPoint(i) ==
    LET ip == interp_positions[i]
        pv == CloughTocher(prevplane[i], ip[1][1], ip[1][2])
        nv == CloughTocher(nextplane[i], ip[2][1], ip[2][2])
    IN  Blend(pv, nv, ip[2][3], ip[1][3])

BlendOnGrid ==
    /\ pc = "traced"
    /\ dne_ad_on_grid' = [i \in Pts |-> BlendPoint(i)]
    /\ pc' = "done"
    /\ UNCHANGED <<gridVars, planeVars, fwdVars, bwdVars, ind, interp_positions, nonTraceVars>>

\* ------------------------------------------------ the tracing runs
\* query points: two rows of the lattice reaching one step outside the mesh
GridPos == {0, 1} \X ((Rc - MeshRad - 1) .. (Rc + MeshRad + 1))
\* the points a second query point of a batch is drawn from
PairPos == {<<0, Rc>>, <<1, Rc>>, <<0, Rc + MeshRad + 1>>}

InitTrace ==
    /\ pc = "planes"
    /\ n_plane \in 1 .. MaxPlanes
    /\ Bfield \in [kind : FieldKinds, sgn : {1, 0 - 1}]
    /\ CO_DIR = (Bfield.sgn > 0)
    /\ maskData \in MaskModes
    /\ \/ \E p \in GridPos, a \in Angles(n_plane) :
            /\ z3D = <<p[1]>> /\ r3D = <<p[2]>> /\ phi3D = <<a>>
       \/ \E p \in PairPos, q \in PairPos, a \in Angles(n_plane), b \in {0, TwoPi(n_plane) - 1} :
            /\ z3D = <<p[1], q[1]>> /\ r3D = <<p[2], q[2]>> /\ phi3D = <<a, b>>
    /\ prevplane = <<>>
    /\ nextplane = <<>>
    /\ TraceIdle
    /\ LoaderIdle
    /\ FlucIdle
    /\ InterpIdle
    /\ EqIdle
    /\ AuxIdle

NextTrace ==
    \/ GetInterpPlanes
    \/ TraceStart
    \/ FwdStep
    \/ FwdDone
    \/ BwdStep
    \/ BwdDone
    \/ BlendOnGrid

SpecTrace == InitTrace /\ [][NextTrace]_vars

\* ------------------------------------------------------------------ C2
OnPlane(i) == phi3D[i] % dPhi = 0
PlaneOf(i) == phi3D[i] \div dPhi
IsValue(f, v) == f.n # NaN /\ f.n = v * f.d
IsOne(f) == f.n # NaN /\ f.n = f.d
IsZero(f) == f.n = 0

\* C2: for a query point whose phi equals a stored plane angle phi_k (either
\* field direction) the arc length toward plane k is zero, the weight
\* applied to plane k's value is 1 and the other weight is 0, and the blended
\* value equals plane k's own interpolated value at the unmoved (R, Z).
C2_OnPlaneBlend ==
    pc = "done" =>
        \A i \in Pts : OnPlane(i) =>
            LET ip == interp_positions[i]
            IN  /\ (IF CO_DIR THEN s_BWD[i] ELSE s_FWD[i]) = 0
                /\ IF CO_DIR
                   THEN prevplane[i] = PlaneOf(i) /\ IsOne(ip[2][3]) /\ IsZero(ip[1][3])
                   ELSE nextplane[i] = PlaneOf(i) /\ IsOne(ip[1][3]) /\ IsZero(ip[2][3])
                /\ IsValue(dne_ad_on_grid[i], CloughTocher(PlaneOf(i), z3D[i], r3D[i]))

\* ------------------------------------------------------------------ C3
Started == pc \in {"fwd", "bwd", "traced", "done"}

\* C3: with B_R = B_Z = 0 and B_phi finite and non-zero (a query point in the
\* mesh, where the interpolants are defined), the forward and the backward
\* trace keep (R, Z) exactly at the starting (R, Z) after every sub-step, and
\* both landing positions are the starting position.
C3_StraightFieldLine ==
    (Started /\ Bfield.kind = "toroidal") =>
        \A i \in Pts : InHull(z3D[i], r3D[i]) =>
            /\ R_FWD[i] = r3D[i] /\ Z_FWD[i] = z3D[i]
            /\ R_BWD[i] = r3D[i] /\ Z_BWD[i] = z3D[i]
            /\ pc \in {"traced", "done"} =>
                  /\ interp_positions[i][1][1] = z3D[i]
                  /\ interp_positions[i][1][2] = r3D[i]
                  /\ interp_positions[i][2][1] = z3D[i]
                  /\ interp_positions[i][2][2] = r3D[i]

C3_Witness ==
    /\ pc = "done" /\ Bfield.kind = "toroidal"
    /\ InHull(z3D[1], r3D[1])
    /\ s_FWD[1] > dphi * r3D[1] /\ s_BWD[1] > dphi * r3D[1]
    /\ interp_positions[1][1][2] = r3D[1] /\ interp_positions[1][2][2] = r3D[1]

\* ------------------------------------------------------------------ C4
\* C4: for every query point, also one that starts or moves outside the mesh
\* convex hull, the landing R, the landing Z and both blend fractions are
\* finite.
C4_FiniteOutputs ==
    pc \in {"traced", "done"} =>
        \A i \in Pts :
            /\ IsFinite(interp_positions[i][1][1]) /\ IsFinite(interp_positions[i][1][2])
            /\ IsFinite(interp_positions[i][2][1]) /\ IsFinite(interp_positions[i][2][2])
            /\ IsFinite(interp_positions[i][1][3].n) /\ IsFinite(interp_positions[i][2][3].n)

\* ---------------------------------------------- the loader and its grid
Range(f) == {f[i] : i \in DOMAIN f}
RECURSIVE SortedSeq(_)
\* np.unique of a set of integers: its members in increasing order
SortedSeq(S) ==
    IF S = {} THEN <<>>
    ELSE LET m == CHOOSE x \in S : \A y \in S : x <= y
         IN  <<m>> \o SortedSeq(S \ {m})

\* Grid objects.  A Cartesian3D carries the angles phi that ToCylindrical
\* gives its points, and cyl: whether r3D, z3D, phi3D exist on the object yet
\* (the constructor does not create them).
LoaderAngles(P) == {0, dPhi - 1, dPhi, TwoPi(P) - 1} \cap Angles(P)
PhiArrays(P) ==
    [1 .. 2 -> LoaderAngles(P)] \cup {<<a, a, a>> : a \in LoaderAngles(P)}
Grids2D == [kind : {"2D"}, id : {1, 2}]
Grids3D(P) == [kind : {"3D"}, phi : PhiArrays(P), cyl : BOOLEAN]

\* Grid.py lines 444-466, ToCylindrical: creates phi3D unless it exists
ToCylindrical(g) == [g EXCEPT !.cyl = TRUE]

\* get_interp_planes over a whole grid
PrevPlaneTable(P, co, phi) == [i \in DOMAIN phi |-> get_interp_planes(P, co, phi[i])[1]]
NextPlaneTable(P, co, phi) == [i \in DOMAIN phi |-> get_interp_planes(P, co, phi[i])[2]]

\* the planes used as previous plane only
UsedAsPrev(prv, nxt) == SortedSeq(Range(prv))
\* load_fluctuations_3D_fluc_only line 903:
\* np.unique([np.unique(self.prevplane), np.unique(self.nextplane)])
UsedPlanes(prv, nxt) == SortedSeq(Range(prv) \cup Range(nxt))

\* lines 90-95 and 133-138: a remaining angle larger than dphi whose sign is
\* opposite to the step's is stepped away from zero and never reaches it
Runaway(rem, sign) == Abs(rem) > dphi /\ rem * sign < 0
TraceDiverges(P, co, phi, prv, nxt) ==
    \E i \in DOMAIN phi :
        \/ Runaway(PhiToNext(P, co, nxt[i], phi[i]), IF co THEN 1 ELSE 0 - 1)
        \/ Runaway(PhiToPrev(P, co, prv[i], phi[i]), IF co THEN 0 - 1 ELSE 1)

\* the on-grid arrays of a 3D pass, by what they are computed from: for each
\* grid point its angle and the two planes blended there
OnGrid3D(g, prv, nxt) ==
    [kind |-> "3D", pts |-> [i \in DOMAIN g.phi |-> <<g.phi[i], prv[i], nxt[i]>>]]
OnGrid2D(g) == [kind |-> "2D", id |-> g.id]

\* interpolate_all_on_grid_3D on grid g with the stored plane index table:
\* how the call ends
Interp3DOutcome(g, P, co, prv, nxt) ==
    IF ~g.cyl THEN "AttributeError"                      \* line 1127: self.grid.r3D
    ELSE IF Len(prv) # Len(g.phi) THEN "ValueError"      \* line 67: shapes differ
    ELSE IF TraceDiverges(P, co, g.phi, prv, nxt) THEN "hang"
    ELSE "ok"

\* __init__ lines 488-519 and change_grid lines 534-566: everything is loaded
\* for the 3D grid g
LoadAll3D(g) ==
    LET g1 == ToCylindrical(g)
        prv == PrevPlaneTable(n_plane, CO_DIR, g1.phi)
        nxt == NextPlaneTable(n_plane, CO_DIR, g1.phi)
    IN  [grid |-> g1, dimension |-> 3, prevplane |-> prv, nextplane |-> nxt,
         planes |-> UsedPlanes(prv, nxt),
         on_grid |-> OnGrid3D(g1, prv, nxt),
         outcome |-> Interp3DOutcome(g1, n_plane, CO_DIR, prv, nxt)]

\* change_grid lines 572-574: self.grid = grid; self.interpolate_all_on_grid_3D()
\* with the plane index table and the loaded planes already stored
Regrid3D(g) ==
    LET res == Interp3DOutcome(g, n_plane, CO_DIR, prevplane, nextplane)
    IN  [grid |-> g, dimension |-> 3, prevplane |-> prevplane, nextplane |-> nextplane,
         planes |-> planes,
         on_grid |-> IF res = "ok" THEN OnGrid3D(g, prevplane, nextplane) ELSE on_grid,
         outcome |-> res]

\* __init__ lines 464-486 and change_grid lines 575-596: everything is loaded
\* for the 2D grid g; self.planes = np.arange(n_cross_section) * dn, one
\* cross-section
LoadAll2D(g) ==
    [grid |-> g, dimension |-> 2, prevplane |-> prevplane, nextplane |-> nextplane,
     planes |-> <<0>>, on_grid |-> OnGrid2D(g), outcome |-> "ok"]

\* change_grid lines 531-533: self.grid = grid; self.interpolate_all_on_grid_2D()
Regrid2D(g) ==
    [grid |-> g, dimension |-> 2, prevplane |-> prevplane, nextplane |-> nextplane,
     planes |-> planes, on_grid |-> OnGrid2D(g), outcome |-> "ok"]

\* isinstance(grid, Cartesian2D), isinstance(grid, Cartesian3D)
IsCartesian2D(g) == g.kind = "2D"
IsCartesian3D(g) == g.kind = "3D"
\* objects of any other class
OtherGrids == {[kind |-> "Cylindrical"], [kind |-> "None"]}

\* a rejected grid that is installed all the same
RejectedButInstalled(g) ==
    [grid |-> g, dimension |-> dimension, prevplane |-> prevplane, nextplane |-> nextplane,
     planes |-> planes, on_grid |-> on_grid, outcome |-> "XGC_Loader_Error"]
\* change_grid lines 568-569 and 597-598: raise XGC_Loader_Error('NOT VALID
\* GRID ... Grid NOT changed.'), reached before anything is assigned
Rejected(g) ==
    [grid |-> grid, dimension |-> dimension, prevplane |-> prevplane, nextplane |-> nextplane,
     planes |-> planes, on_grid |-> on_grid, outcome |-> "XGC_Loader_Error"]

\* change_grid(grid), lines 525-598
change_grid(g) ==
    IF dimension = 2
    THEN IF IsCartesian2D(g) THEN Regrid2D(g)
         ELSE IF IsCartesian3D(g) THEN LoadAll3D(g)
         ELSE Rejected(g)
    ELSE IF IsCartesian3D(g) THEN Regrid3D(g)
         ELSE IF IsCartesian2D(g) THEN LoadAll2D(g)
         ELSE Rejected(g)

Install(g, st) ==
    /\ request' = g
    /\ grid' = st.grid
    /\ dimension' = st.dimension
    /\ prevplane' = st.prevplane
    /\ nextplane' = st.nextplane
    /\ planes' = st.planes
    /\ on_grid' = st.on_grid
    /\ outcome' = st.outcome
    /\ pc' = IF st.outcome = "hang" THEN "hung" ELSE "loaded"
    /\ UNCHANGED <<nodeVars, auxVars, gridVars, traceVars, flucVars, interpVars, eqVars>>

\* no XGC_Loader has been constructed yet; the simulation's files exist
InitGrid ==
    /\ pc = "new"
    /\ n_plane \in 2 .. MaxPlanes
    /\ CO_DIR \in BOOLEAN
    /\ phi3D = <<>> /\ r3D = <<>> /\ z3D = <<>>
    /\ Bfield = NoField /\ maskData = "nan"
    /\ prevplane = <<>> /\ nextplane = <<>>
    /\ TraceIdle
    /\ LoaderIdle
    /\ FlucIdle
    /\ InterpIdle
    /\ EqIdle
    /\ AuxIdle

\* XGC_Loader(xgc_path, grid, ...) with Full_Load, lines 416-519, on a valid
\* grid
Construct ==
    /\ pc = "new"
    /\ \E g \in Grids2D \cup Grids3D(n_plane) :
          Install(g, IF IsCartesian2D(g) THEN LoadAll2D(g) ELSE LoadAll3D(g))

\* lines 457-462: raise XGC_Loader_Error('grid error: ...'); no loader object
\* comes to exist
ConstructInvalid ==
    /\ pc = "new"
    /\ \E g \in OtherGrids :
          /\ ~IsCartesian2D(g) /\ ~IsCartesian3D(g)
          /\ request' = g
          /\ outcome' = "XGC_Loader_Error"
          /\ pc' = "failed"
    /\ UNCHANGED <<nodeVars, auxVars, gridVars, planeVars, traceVars, flucVars, interpVars, eqVars, grid,
                   dimension, planes, on_grid>>

ChangeGrid2Dto2D ==
    /\ pc = "loaded" /\ dimension = 2
    /\ \E g \in Grids2D : Install(g, change_grid(g))

ChangeGrid2Dto3D ==
    /\ pc = "loaded" /\ dimension = 2
    /\ \E g \in Grids3D(n_plane) : Install(g, change_grid(g))

ChangeGrid3Dto3D ==
    /\ pc = "loaded" /\ dimension = 3
    /\ \E g \in Grids3D(n_plane) : Install(g, change_grid(g))

ChangeGrid3Dto2D ==
    /\ pc = "loaded" /\ dimension = 3
    /\ \E g \in Grids2D : Install(g, change_grid(g))

ChangeGridInvalid ==
    /\ pc = "loaded"
    /\ \E g \in OtherGrids : Install(g, change_grid(g))

NextGrid ==
    \/ Construct
    \/ ConstructInvalid
    \/ ChangeGrid2Dto2D
    \/ ChangeGrid2Dto3D
    \/ ChangeGrid3Dto3D
    \/ ChangeGrid3Dto2D
    \/ ChangeGridInvalid

SpecGrid == InitGrid /\ [][NextGrid]_vars

\* ------------------------------------------------------------------ C5
\* C5: after any sequence of change_grid calls with valid grids (3D grids
\* supplied with their cylindrical coordinates) the call completes, and the
\* plane index table, the set of loaded planes and the on-grid arrays are the
\* ones computed from the current grid.
C5_ReloadedForGrid ==
    (pc # "new" /\ outcome # "XGC_Loader_Error" /\ (dimension = 3 => grid.cyl)) =>
        /\ outcome = "ok"
        /\ dimension = 3 =>
              /\ prevplane = PrevPlaneTable(n_plane, CO_DIR, grid.phi)
              /\ nextplane = NextPlaneTable(n_plane, CO_DIR, grid.phi)
              /\ planes = UsedPlanes(prevplane, nextplane)
              /\ on_grid = OnGrid3D(grid, prevplane, nextplane)
        /\ dimension = 2 => on_grid = OnGrid2D(grid)

\* ----------------------------------------------------------------- C14
\* C14: a constructor or change_grid call whose grid is neither a Cartesian2D
\* nor a Cartesian3D ends with XGC_Loader_Error, and a change_grid call that
\* ends so leaves the installed grid, the dimension, the plane index table,
\* the loaded planes and the on-grid arrays as they were before the call.
C14_UnusableGridRejected ==
    [][/\ (request' \in OtherGrids) => outcome' = "XGC_Loader_Error"
       /\ (pc = "loaded" /\ outcome' = "XGC_Loader_Error") =>
              UNCHANGED <<grid, dimension, planeVars, planes, on_grid>>]_vars

\* change_grid has rejected a grid on a loader holding the arrays of a 3D grid
C14_Witness ==
    /\ pc = "loaded" /\ outcome = "XGC_Loader_Error"
    /\ request \in OtherGrids
    /\ dimension = 3 /\ grid \in Grids3D(n_plane)
    /\ on_grid = OnGrid3D(grid, prevplane, nextplane)

\* --------------------------------------------------- fluctuation loading
MaxSteps == 2

\* the stored arrays and the file dataset each is read from
Quantities == {"phi", "nane", "dni"}
Dataset(qty) == CASE qty = "phi" -> "dpot" [] qty = "nane" -> "eden" [] qty = "dni" -> "iden"
Loaded(qty) ==
    \/ qty = "phi"
    \/ qty = "nane" /\ HaveElectron
    \/ qty = "dni" /\ load_ions

\* File contents: the value of a dataset at node n, plane q, in the file of
\* the i-th chosen time step.  a: variation from plane to plane,
\* b: variation from file to file.
Patterns == [a : {0, 1}, b : {0, 1}]
FlatPattern == [a |-> 0, b |-> 0]
FileData(pat, q, i, n) == pat.a * q + pat.b * i + n[1] + n[2]

RECURSIVE Sum0(_, _)
\* f[0] + ... + f[k-1]
Sum0(f, k) == IF k = 0 THEN 0 ELSE f[k - 1] + Sum0(f, k - 1)

RatAdd(x, y) == [n |-> x.n * y.d + y.n * x.d, d |-> x.d * y.d]
RatEq(x, y) == x.n * y.d = y.n * x.d

\* phi_all, nane_all, dni_all after the loading loops.
\* 2D, lines 782-801: the first file, then files 1 .. len(time_steps)-1.
AllLoaded2D(pat) ==
    [q \in 0 .. (n_plane - 1) |->
        [i \in 0 .. (time_steps - 1) |->
            [n \in MeshNodes |-> 0 + FileData(pat, q, i, n)]]]
\* 3D, lines 913-925: np.zeros, then for i in range(1, len(self.time_steps))
AllLoaded3D(pat) ==
    [q \in 0 .. (n_plane - 1) |->
        [i \in 0 .. (time_steps - 1) |->
            [n \in MeshNodes |-> IF i >= 1 THEN 0 + FileData(pat, q, i, n) ELSE 0]]]

\* np.average(all, axis = 0)
avg_tor(all) ==
    [i \in 0 .. (time_steps - 1) |->
        [n \in MeshNodes |->
            [n |-> Sum0([q \in 0 .. (n_plane - 1) |-> all[q][i][n]], n_plane),
             d |-> n_plane]]]
\* raw - 2 * avg
LessDoubleAvg(raw, avg) == [n |-> raw * avg.d - 2 * avg.n, d |-> avg.d]
\* raw - avg
LessAvg(raw, avg) == [n |-> raw * avg.d - avg.n, d |-> avg.d]

\* dn = int(self.n_plane / self.n_cross_section)
dn == n_plane \div n_cross_section
\* np.arange(self.n_cross_section) * dn, 2D: self.planes
Planes2D == [j \in 1 .. n_cross_section |-> (j - 1) * dn]
\* 3D: self.center_planes
CenterPlanes == [j \in 0 .. (n_cross_section - 1) |-> j * dn]

\* lines 817-822: self.phi[j,:,:] = phi_all[self.planes[j],:,:] - phi_avg_tor
Stored2D(all) ==
    [j \in 0 .. (n_cross_section - 1) |->
        [i \in 0 .. (time_steps - 1) |->
            [n \in MeshNodes |-> LessAvg(all[Planes2D[j + 1]][i][n], avg_tor(all)[i][n])]]]
\* lines 937-942: self.phi[j,...] =
\*   swapaxes(phi_all[(center_planes[j] + planes) % n_plane]) - phi_avg_tor
Stored3D(all, pl) ==
    [j \in 0 .. (n_cross_section - 1) |->
        [i \in 0 .. (time_steps - 1) |->
            [k \in DOMAIN pl |->
                [n \in MeshNodes |->
                    LessAvg(all[(CenterPlanes[j] + pl[k]) % n_plane][i][n],
                            avg_tor(all)[i][n])]]]]

\* np.average(avg, axis = 0)
avg_time(avg) ==
    [n \in MeshNodes |->
        [n |-> Sum0([i \in 0 .. (time_steps - 1) |-> avg[i][n].n], time_steps),
         d |-> n_plane * time_steps]]
\* lines 826-832 and 944-949: the equilibrium density after the load
Relaxed(e0, allPhi, allOwn, own) ==
    [n \in MeshNodes |->
        LET e1 == RatAdd(e0[n], avg_time(avg_tor(allPhi))[n])
        IN  IF own THEN RatAdd(e1, avg_time(avg_tor(allOwn))[n]) ELSE e1]

\* load_eq_2D3D lines 984-988: the input equilibrium densities on the nodes
Eq0 == [n \in MeshNodes |-> [n |-> 10 + n[2], d |-> 1]]

load_fluctuations_2D_fluc_only ==
    /\ pc = "fluc_ready" /\ dimension = 2
    /\ planes' = Planes2D
    /\ fluc' = [qty \in Quantities |->
                  IF Loaded(qty) THEN Stored2D(AllLoaded2D(files[Dataset(qty)])) ELSE <<>>]
    /\ ne0' = Relaxed(ne0, AllLoaded2D(files["dpot"]), AllLoaded2D(files["eden"]), HaveElectron)
    /\ ni0' = Relaxed(ni0, AllLoaded2D(files["dpot"]), AllLoaded2D(files["iden"]), load_ions)
    /\ pc' = "fluc_loaded"
    /\ UNCHANGED <<nodeVars, request, auxVars, gridVars, planeVars, traceVars, interpVars, eqVars, grid, dimension, on_grid,
                   outcome, time_steps, n_cross_section, HaveElectron, load_ions, files,
                   center_planes>>

load_fluctuations_3D_fluc_only ==
    /\ pc = "fluc_ready" /\ dimension = 3
    /\ center_planes' = CenterPlanes
    /\ planes' = UsedPlanes(prevplane, nextplane)
    /\ fluc' = [qty \in Quantities |->
                  IF Loaded(qty) THEN Stored3D(AllLoaded3D(files[Dataset(qty)]), planes')
                  ELSE <<>>]
    /\ ne0' = Relaxed(ne0, AllLoaded3D(files["dpot"]), AllLoaded3D(files["eden"]), HaveElectron)
    /\ ni0' = Relaxed(ni0, AllLoaded3D(files["dpot"]), AllLoaded3D(files["iden"]), load_ions)
    /\ pc' = "fluc_loaded"
    /\ UNCHANGED <<nodeVars, request, auxVars, gridVars, planeVars, traceVars, interpVars, eqVars, grid, dimension, on_grid,
                   outcome, time_steps, n_cross_section, HaveElectron, load_ions, files>>

\* the loader in __init__ just before the fluctuations are loaded
\* (line 477 for a 2D grid, line 508 for a 3D grid)
InitFluc ==
    /\ pc = "fluc_ready"
    /\ n_plane \in 1 .. MaxPlanes
    /\ time_steps \in 1 .. MaxSteps
    /\ n_cross_section \in {1, n_plane, n_plane + 1}
    /\ HaveElectron \in BOOLEAN
    /\ load_ions \in BOOLEAN
    /\ files \in [{"dpot", "eden", "iden"} -> Patterns]
    /\ ~HaveElectron => files["eden"] = FlatPattern
    /\ ~load_ions => files["iden"] = FlatPattern
    /\ center_planes = <<>> /\ fluc = <<>>
    /\ ne0 = Eq0 /\ ni0 = Eq0
    /\ phi3D = <<>> /\ r3D = <<>> /\ z3D = <<>>
    /\ Bfield = NoField /\ maskData = "nan"
    /\ TraceIdle
    /\ InterpIdle
    /\ EqIdle
    /\ on_grid = <<>> /\ outcome = "none"
    /\ \/ /\ dimension = 2
          /\ grid \in Grids2D
          /\ CO_DIR = TRUE
          /\ prevplane = <<>> /\ nextplane = <<>> /\ planes = <<>>
       \/ /\ dimension = 3
          /\ CO_DIR \in BOOLEAN
          /\ \E a \in LoaderAngles(n_plane) :
                grid = [kind |-> "3D", phi |-> <<a>>, cyl |-> TRUE]
          /\ prevplane = PrevPlaneTable(n_plane, CO_DIR, grid.phi)
          /\ nextplane = NextPlaneTable(n_plane, CO_DIR, grid.phi)
          /\ planes = <<>>
    /\ AuxIdle

NextFluc ==
    \/ load_fluctuations_2D_fluc_only
    \/ load_fluctuations_3D_fluc_only

SpecFluc == InitFluc /\ [][NextFluc]_vars

\* ------------------------------------------------------------------ C6
\* the plane of the simulation stored at position k of cross-section j
SelectedPlane(j, k) ==
    IF dimension = 2 THEN planes[j + 1]
    ELSE (center_planes[j] + planes[k]) % n_plane
StoredAt(qty, j, i, k, n) ==
    IF dimension = 2 THEN fluc[qty][j][i][n] ELSE fluc[qty][j][i][k][n]
PlaneSlots == IF dimension = 2 THEN {1} ELSE DOMAIN planes
\* raw[p,i,n] - (1/P) * sum over q of raw[q,i,n], with raw the file data
TrueFluctuation(qty, p, i, n) ==
    [n |-> n_plane * FileData(files[Dataset(qty)], p, i, n)
           - Sum0([q \in 0 .. (n_plane - 1) |-> FileData(files[Dataset(qty)], q, i, n)],
                  n_plane),
     d |-> n_plane]

\* C6: after either fluctuation loader, for every loaded quantity, every
\* chosen time step i (the first included), every selected plane p and every
\* mesh node n, the stored fluctuation is the file value of plane p less the
\* average of the file values over all simulation planes.
C6_ToroidalAverage ==
    pc = "fluc_loaded" =>
        \A qty \in Quantities : Loaded(qty) =>
            \A j \in 0 .. (n_cross_section - 1), i \in 0 .. (time_steps - 1) :
                \A k \in PlaneSlots, n \in MeshNodes :
                    RatEq(StoredAt(qty, j, i, k, n),
                          TrueFluctuation(qty, SelectedPlane(j, k), i, n))

\* ----------------------------------------------------------------- C30
\* the loader in __init__ at line 508, on a 3D grid of one, two or three
\* points, the plane index table computed at line 500; one time step
InitPlaneSet ==
    /\ pc = "fluc_ready"
    /\ n_plane \in 1 .. MaxPlanes
    /\ time_steps = 1
    /\ n_cross_section \in {1, n_plane, n_plane + 1}
    /\ HaveElectron \in BOOLEAN
    /\ load_ions \in BOOLEAN
    /\ files \in [{"dpot", "eden", "iden"} -> {FlatPattern, [a |-> 1, b |-> 0]}]
    /\ ~HaveElectron => files["eden"] = FlatPattern
    /\ ~load_ions => files["iden"] = FlatPattern
    /\ center_planes = <<>> /\ fluc = <<>>
    /\ ne0 = Eq0 /\ ni0 = Eq0
    /\ phi3D = <<>> /\ r3D = <<>> /\ z3D = <<>>
    /\ Bfield = NoField /\ maskData = "nan"
    /\ TraceIdle
    /\ InterpIdle
    /\ EqIdle
    /\ on_grid = <<>> /\ outcome = "none"
    /\ dimension = 3
    /\ CO_DIR \in BOOLEAN
    /\ \E ph \in {<<a>> : a \in LoaderAngles(n_plane)} \cup PhiArrays(n_plane) :
          grid = [kind |-> "3D", phi |-> ph, cyl |-> TRUE]
    /\ prevplane = PrevPlaneTable(n_plane, CO_DIR, grid.phi)
    /\ nextplane = NextPlaneTable(n_plane, CO_DIR, grid.phi)
    /\ planes = <<>>
    /\ AuxIdle

NextPlaneSet == load_fluctuations_3D_fluc_only

SpecPlaneSet == InitPlaneSet /\ [][NextPlaneSet]_vars

\* C30: after the 3D fluctuation loader, the distinct previous-plane indices
\* and the distinct next-plane indices are equally many, self.planes is the
\* sorted union of the two, the prevplane and the nextplane of every grid
\* point are members of self.planes, and for every cross-section k the file
\* plane read for entry j, (center_planes[k] + planes[j]) mod n_plane, is in
\* 0 .. n_plane - 1.
C30_LoadedPlaneSet ==
    (pc = "fluc_loaded" /\ dimension = 3) =>
        /\ Cardinality(Range(prevplane)) = Cardinality(Range(nextplane))
        /\ planes = SortedSeq(Range(prevplane) \cup Range(nextplane))
        /\ \A pt \in DOMAIN prevplane :
              prevplane[pt] \in Range(planes) /\ nextplane[pt] \in Range(planes)
        /\ \A k \in DOMAIN center_planes, j \in DOMAIN planes :
              (center_planes[k] + planes[j]) % n_plane \in 0 .. (n_plane - 1)

\* a grid whose two points lie in different plane gaps, one of them in the
\* gap that wraps around, loaded with a second cross-section whose centre
\* plane is not plane 0: the index sum passes n_plane
C30_Witness ==
    /\ pc = "fluc_loaded" /\ dimension = 3
    /\ Cardinality(Range(prevplane)) >= 2
    /\ Len(planes) >= 2
    /\ \E pt \in DOMAIN prevplane : nextplane[pt] < prevplane[pt] \/ prevplane[pt] < nextplane[pt] - 1
    /\ \E k \in DOMAIN center_planes, j \in DOMAIN planes :
          center_planes[k] + planes[j] >= n_plane

\* after any sequence of change_grid calls the stored table and the stored
\* planes still belong together, also where change_grid has kept both
StoredPlanesCoverTable ==
    (pc = "loaded" /\ dimension = 3) =>
        /\ Cardinality(Range(prevplane)) = Cardinality(Range(nextplane))
        /\ Range(prevplane) \cup Range(nextplane) = Range(planes)

\* ------------------------------------- fluctuations on a 3D grid
\* lines 114-127 (157-170) for one point: <<Z, R, s>> after a step from st
Advance(st, step) ==
    LET d == RKStep(st[1], st[2], step)
    IN  <<Add(st[1], d[1]), Add(st[2], d[2]), Add(st[3], d[3])>>

RECURSIVE TraceTo(_, _, _)
\* the while-loop of lines 90-128 (133-171) for one point, run to its end:
\* ind starts all True, so the body runs once even when rem is 0, and then
\* until the remaining angle has reached 0; st and the result are <<Z, R, s>>.
\* Each iterate x is bound as a value, so it is computed once.
TraceTo(st, rem, sign) ==
    LET step == StepSize(rem, sign)
        Rest(x) == IF rem - step = 0 THEN x ELSE TraceTo(x, rem - step, sign)
    IN  CHOOSE res \in {Rest(x) : x \in {Advance(st, step)}} : TRUE

\* find_interp_positions_v2_upgrade(self) for grid point pt
find_interp_positions_v2_upgrade(pt) ==
    LET fwd == TraceTo(<<z3D[pt], r3D[pt], 0>>,
                       PhiToNext(n_plane, CO_DIR, nextplane[pt], phi3D[pt]), FWD_sign)
        bwd == TraceTo(<<z3D[pt], r3D[pt], 0>>,
                       PhiToPrev(n_plane, CO_DIR, prevplane[pt], phi3D[pt]), BWD_sign)
        f0 == Frac(bwd[3], Add(bwd[3], fwd[3]))
    IN  << <<bwd[1], bwd[2], f0>>, <<fwd[1], fwd[2], OneMinus(f0)>> >>

\* the stepwise loops and the loop run to its end give the same positions
TraceAgrees ==
    pc \in {"traced", "done"} =>
        \A i \in Pts : interp_positions[i] = find_interp_positions_v2_upgrade(i)

\* ----------------------------------------------------------------- C26
\* the entries of point i in the tracer's arrays
TracerEntries(i) ==
    <<phiFWD[i], Z_FWD[i], R_FWD[i], s_FWD[i], phiBWD[i], Z_BWD[i], R_BWD[i], s_BWD[i]>>

\* C26: the positions and blend fractions returned for a query point are
\* those of the point traced by itself from its own (R, Z, phi), its
\* prev/next plane and the field, alone or in a batch with another point;
\* and an iteration that other points still need leaves the entries of a
\* point whose remaining angle has reached 0 as they are.
C26_BatchIndependence ==
    [][/\ pc' = "traced" =>
              \A i \in Pts : interp_positions'[i] = find_interp_positions_v2_upgrade(i)
       /\ (pc \in {"fwd", "bwd"} /\ pc' = pc) =>
              \A i \in Pts : ~ind[i] => TracerEntries(i)' = TracerEntries(i)
      ]_vars

\* a batch of two points traced to the end, one of which left the mesh with
\* finite coordinates and needed fewer iterations than the other
C26_Witness ==
    /\ pc = "traced" /\ Pts = {1, 2}
    /\ \E i \in Pts, j \in Pts :
          /\ Abs(PhiToNext(n_plane, CO_DIR, nextplane[i], phi3D[i])) <= dphi
          /\ Abs(PhiToNext(n_plane, CO_DIR, nextplane[j], phi3D[j])) > dphi
          /\ Z_FWD[i] # NaN /\ R_FWD[i] # NaN
          /\ ~InHull(Z_FWD[i], R_FWD[i])

\* CloughTocher2DInterpolator(self.Delaunay, values, fill_value = 0)((Z, R))
CloughTocherOn(values, z, r) == IF InHull(z, r) THEN values[<<z, r>>] ELSE 0

\* node data of a stored quantity: level c, cross-section k, time step i,
\* simulation plane p
StoredData(c, k, i, p) ==
    [n \in MeshNodes |-> 1000 * c + PlaneData(p, n[1], n[2]) + 2000 * k + 4000 * i]
\* a stored array of shape (n_cross_section, len(time_steps), len(planes), nodes)
StoredArray(c) ==
    [k \in 0 .. (n_cross_section - 1) |->
        [i \in 0 .. (time_steps - 1) |->
            [j \in DOMAIN planes |->
                StoredData(c, k, i, (CenterPlanes[k] + planes[j]) % n_plane)]]]

Zero == [n |-> 0, d |-> 1]
\* np.zeros((n_cross_section, len(time_steps)) + grid shape)
ZerosOnGrid ==
    [k \in 0 .. (n_cross_section - 1) |->
        [i \in 0 .. (time_steps - 1) |-> [pt \in Pts |-> Zero]]]
\* prev = np.zeros(...), next = np.zeros(...)
ZeroBuf == [pt \in Pts |-> 0]

\* the buffer entry of pt filled only while it still holds zero
OverwriteFresh(buf, values, tbl, ip, side, j) ==
    [pt \in Pts |->
        IF buf[pt] = 0 /\ \E m \in DOMAIN planes : planes[m] = tbl[pt]
        THEN LET m == CHOOSE m \in DOMAIN planes : planes[m] = tbl[pt]
             IN  CloughTocherOn(values[m], ip[pt][side][1], ip[pt][side][2])
        ELSE buf[pt]]

RECURSIVE Overwrite(_, _, _, _, _, _)
\* for j in range(len(self.planes)): prev[prev_idx[j]] = CloughTocher...(...),
\* from index j on; tbl is prevplane (side 1) or nextplane (side 2)
Overwrite(buf, values, tbl, ip, side, j) ==
    IF j > Len(planes) THEN buf
    ELSE LET buf1 == [pt \in Pts |->
                        IF tbl[pt] = planes[j]
                        THEN CloughTocherOn(values[j], ip[pt][side][1], ip[pt][side][2])
                        ELSE buf[pt]]
         IN  Overwrite(buf1, values, tbl, ip, side, j + 1)

\* prev * interp_positions[1,2,...] + next * interp_positions[0,2,...]
BlendBufs(prv, nxt, ip) ==
    [pt \in Pts |-> Blend(prv[pt], nxt[pt], ip[pt][2][3], ip[pt][1][3])]

\* the body of the loops over (k, i), lines 1235-1277: the buffers and the
\* blended arrays after each quantity
PairPass(k, i, ip) ==
    LET prevA == Overwrite(ZeroBuf, dne_ad[k][i], prevplane, ip, 1, 1)
        nextA == Overwrite(ZeroBuf, dne_ad[k][i], nextplane, ip, 2, 1)
        prevB == IF HaveElectron
                 THEN Overwrite(prevA, fluc["nane"][k][i], prevplane, ip, 1, 1) ELSE prevA
        nextB == IF HaveElectron
                 THEN Overwrite(nextA, fluc["nane"][k][i], nextplane, ip, 2, 1) ELSE nextA
        prevC == IF load_ions
                 THEN Overwrite(ZeroBuf, fluc["dni"][k][i], prevplane, ip, 1, 1) ELSE prevB
        nextC == IF load_ions
                 THEN Overwrite(ZeroBuf, fluc["dni"][k][i], nextplane, ip, 2, 1) ELSE nextB
    IN  [dne_ad |-> BlendBufs(prevA, nextA, ip),
         nane |-> BlendBufs(prevB, nextB, ip),
         dni |-> BlendBufs(prevC, nextC, ip)]

\* the arrays when every pair (k, i) has been passed
AllPairs(qty, ip) ==
    [k \in 0 .. (n_cross_section - 1) |->
        [i \in 0 .. (time_steps - 1) |-> PairPass(k, i, ip)[qty]]]

\* interpolate_all_on_grid_3D, lines 1221-1228: the arrays are allocated and
\* the field lines traced, in a first call or in a call after an earlier one
\* has ended (outcome keeps how the last ended call ended)
Interp3DBegin ==
    /\ pc \in {"interp_ready", "interp_done"}
    /\ dne_ad_on_grid' = ZerosOnGrid
    /\ nane_on_grid' = IF HaveElectron THEN ZerosOnGrid ELSE nane_on_grid
    /\ \/ \* line 1226: self.dni_ad_on_grid does not exist
          /\ load_ions /\ dni_ad_on_grid = "absent"
          /\ outcome' = "AttributeError"
          /\ pc' = "interp_done"
          /\ UNCHANGED <<dni_on_grid, interp_positions>>
       \/ /\ load_ions => dni_ad_on_grid # "absent"
          /\ dni_on_grid' = IF load_ions THEN ZerosOnGrid ELSE dni_on_grid
          /\ interp_positions' = [pt \in Pts |-> find_interp_positions_v2_upgrade(pt)]
          /\ pc' = "interp_loop"
          /\ UNCHANGED outcome
    /\ loop_ki' = <<0, 0>>
    /\ UNCHANGED <<nodeVars, request, auxVars, gridVars, planeVars, fwdVars, bwdVars, ind, flucVars, eqVars, dne_ad,
                   dni_ad_on_grid, grid, dimension, planes, on_grid>>

\* lines 1230-1277: the pass of the loops for the pair (k, i) = loop_ki
Interp3DPair ==
    /\ pc = "interp_loop"
    /\ LET k == loop_ki[1]
           i == loop_ki[2]
           res == PairPass(k, i, interp_positions)
           last == k = n_cross_section - 1 /\ i = time_steps - 1
       IN  /\ dne_ad_on_grid' = [dne_ad_on_grid EXCEPT ![k][i] = res.dne_ad]
           /\ nane_on_grid' = IF HaveElectron
                              THEN [nane_on_grid EXCEPT ![k][i] = res.nane]
                              ELSE nane_on_grid
           /\ \/ \* line 1277: the 3D blend does not fit the 2D-shaped dni_on_grid
                 /\ load_ions /\ dni_ad_on_grid = "misfit"
                 /\ outcome' = "ValueError"
                 /\ pc' = "interp_done"
                 /\ UNCHANGED <<dni_on_grid, loop_ki>>
              \/ /\ load_ions => dni_ad_on_grid = "fits"
                 /\ dni_on_grid' = IF load_ions
                                   THEN [dni_on_grid EXCEPT ![k][i] = res.dni]
                                   ELSE dni_on_grid
                 /\ loop_ki' = IF last THEN loop_ki
                               ELSE IF i = time_steps - 1 THEN <<k + 1, 0>>
                               ELSE <<k, i + 1>>
                 /\ outcome' = IF last THEN "ok" ELSE outcome
                 /\ pc' = IF last THEN "interp_done" ELSE "interp_loop"
    /\ UNCHANGED <<nodeVars, request, auxVars, gridVars, planeVars, fwdVars, bwdVars, ind, interp_positions, flucVars,
                   eqVars, dne_ad, dni_ad_on_grid, grid, dimension, planes, on_grid>>

\* the points put on the grid: one point, or two
InterpPoints == {<< <<1, Rc>> >>, << <<0, Rc + MeshRad + 1>> >>, << <<0, Rc>>, <<1, Rc>> >>}

\* the loader inside interpolate_all_on_grid_3D at line 1221, the mesh, the
\* field, the plane table and the fluctuations loaded
InitInterp3D ==
    /\ pc = "interp_ready"
    /\ n_plane \in 1 .. MaxPlanes
    /\ Bfield \in [kind : {"helical"}, sgn : {1, 0 - 1}]
    /\ CO_DIR = (Bfield.sgn > 0)
    /\ maskData \in MaskModes
    /\ \E ps \in InterpPoints, a \in LoaderAngles(n_plane) :
          /\ z3D = [m \in DOMAIN ps |-> ps[m][1]]
          /\ r3D = [m \in DOMAIN ps |-> ps[m][2]]
          /\ phi3D = [m \in DOMAIN ps |-> IF m = 1 THEN a ELSE 0]
    /\ prevplane = PrevPlaneTable(n_plane, CO_DIR, phi3D)
    /\ nextplane = NextPlaneTable(n_plane, CO_DIR, phi3D)
    /\ planes = UsedPlanes(prevplane, nextplane)
    /\ grid = [kind |-> "3D", phi |-> phi3D, cyl |-> TRUE]
    /\ dimension = 3
    /\ on_grid = <<>> /\ outcome = "none"
    /\ TraceIdle
    /\ time_steps \in 1 .. MaxSteps
    /\ n_cross_section \in {1, n_plane}
    /\ center_planes = CenterPlanes
    /\ HaveElectron \in BOOLEAN
    /\ load_ions \in BOOLEAN
    /\ dni_ad_on_grid \in IF load_ions THEN {"absent", "misfit", "fits"} ELSE {"absent"}
    /\ files = <<>> /\ ne0 = Eq0 /\ ni0 = Eq0
    /\ dne_ad = StoredArray(1)
    /\ fluc = [qty \in Quantities |->
                 CASE qty = "phi" -> StoredArray(0)
                   [] qty = "nane" -> IF HaveElectron THEN StoredArray(2) ELSE <<>>
                   [] qty = "dni" -> IF load_ions THEN StoredArray(3) ELSE <<>>]
    /\ nane_on_grid = <<>> /\ dni_on_grid = <<>>
    /\ loop_ki = <<0, 0>>
    /\ EqIdle
    /\ AuxIdle

NextInterp3D ==
    \/ Interp3DBegin
    \/ Interp3DPair

SpecInterp3D == InitInterp3D /\ [][NextInterp3D]_vars

\* ------------------------------------------------------------------ C7
\* C7: on a 3D grid with fluctuations enabled the resampling completes and
\* leaves, for every (cross-section, time step) pair, a blended array for
\* the adiabatic density of the potential, for the non-adiabatic electron
\* density when electrons are present, and for the ion density when load_ions
\* is set.
C7_AllQuantitiesResampled ==
    pc = "interp_done" =>
        /\ outcome = "ok"
        /\ dne_ad_on_grid = AllPairs("dne_ad", interp_positions)
        /\ HaveElectron => nane_on_grid = AllPairs("nane", interp_positions)
        /\ load_ions => dni_on_grid = AllPairs("dni", interp_positions)

\* ------------------------------------------------------------------ C8
\* the blend of one quantity's own plane data through buffers of its own
OwnBlend(values, pt) ==
    LET ip == interp_positions[pt]
        jp == CHOOSE j \in DOMAIN planes : planes[j] = prevplane[pt]
        jn == CHOOSE j \in DOMAIN planes : planes[j] = nextplane[pt]
    IN  Blend(CloughTocherOn(values[jp], ip[1][1], ip[1][2]),
              CloughTocherOn(values[jn], ip[2][1], ip[2][2]),
              ip[2][3], ip[1][3])
OnGridOf(qty) ==
    CASE qty = "dne_ad" -> dne_ad_on_grid
      [] qty = "nane" -> nane_on_grid
      [] qty = "dni" -> dni_on_grid
StoredOf(qty) == IF qty = "dne_ad" THEN dne_ad ELSE fluc[qty]
Resampled(qty) ==
    \/ qty = "dne_ad"
    \/ qty = "nane" /\ HaveElectron
    \/ qty = "dni" /\ load_ions

\* C8: when the resampling completes, the gridded value of each quantity at
\* each grid point and (cross-section, time step) pair is the blend of that
\* quantity's own plane data for that pair: the reused buffers carry nothing
\* over from another quantity, cross-section or time step.
C8_NoLeakage ==
    (pc = "interp_done" /\ outcome = "ok") =>
        \A qty \in {"dne_ad", "nane", "dni"} : Resampled(qty) =>
            \A k \in 0 .. (n_cross_section - 1), i \in 0 .. (time_steps - 1), pt \in Pts :
                OnGridOf(qty)[k][i][pt] = OwnBlend(StoredOf(qty)[k][i], pt)

C8_Witness ==
    /\ pc = "interp_done" /\ outcome = "ok"
    /\ HaveElectron
    /\ time_steps > 1
    /\ \E pt \in Pts :
          /\ nane_on_grid[0][1][pt].n > 0
          /\ nane_on_grid[0][1][pt] # dne_ad_on_grid[0][1][pt]
          /\ nane_on_grid[0][1][pt] # nane_on_grid[0][0][pt]

\* ------------------------------------------- equilibrium on the grid
\* Node data of an equilibrium quantity, as the values of
\* c0 + cz*Z + cr*(R - Rc) + qz*Z^2 + qr*(R - Rc)^2 at the mesh nodes.
FieldVal(f, z, r) ==
    f.c0 + f.cz * z + f.cr * (r - Rc) + f.qz * z * z + f.qr * (r - Rc) * (r - Rc)
\* cubic_interp(triangulation, data, trifinder)(Z, R): masked outside the hull
Interp(f, z, r) == IF InHull(z, r) THEN FieldVal(f, z, r) ELSE NaN
\* cubic_interp(...).gradient(Z, R): <<d/dZ, d/dR>>
Gradient(f, z, r) ==
    IF InHull(z, r) THEN <<f.cz + 2 * f.qz * z, f.cr + 2 * f.qr * (r - Rc)>>
    ELSE <<NaN, NaN>>

PsiFields ==
    {[c0 |-> 0, cz |-> 0, cr |-> 0, qz |-> 1, qr |-> 2],
     [c0 |-> 1, cz |-> 1, cr |-> 2, qz |-> 0, qr |-> 0]}
BtotalFields == {[c0 |-> 2 * Rc, cz |-> 0, cr |-> 1, qz |-> 2, qr |-> 1]}
\* self.BR, self.BZ, self.BPhi: the node data of BRnode, BZnode, BPhinode
BRField ==
    [c0 |-> 0, cz |-> IF Bfield.kind = "helical" THEN 0 - 1 ELSE 0, cr |-> 0,
     qz |-> 0, qr |-> 0]
BZField ==
    [c0 |-> 0, cz |-> 0, cr |-> IF Bfield.kind = "helical" THEN 1 ELSE 0,
     qz |-> 0, qr |-> 0]
BPhiField == [c0 |-> Bfield.sgn * Rc, cz |-> 0, cr |-> Bfield.sgn, qz |-> 0, qr |-> 0]
FieldsAgree ==
    \A n \in MeshNodes :
        /\ FieldVal(BRField, n[1], n[2]) = BRnode(n[1], n[2])
        /\ FieldVal(BZField, n[1], n[2]) = BZnode(n[1], n[2])
        /\ FieldVal(BPhiField, n[1], n[2]) = BPhinode(n[1], n[2])

\* ConvexHull(self.points).vertices: the corners of the mesh, counterclockwise
\* in the (Z, R) plane, starting at corner k + 1
HullCorners ==
    << <<MeshRad, Rc>>, <<0, Rc + MeshRad>>, <<0 - MeshRad, Rc>>, <<0, Rc - MeshRad>> >>
Rotate(sq, k) == [m \in 1 .. Len(sq) |-> sq[((m - 1 + k) % Len(sq)) + 1]]

GridPts == DOMAIN r3D

\* (Z - Z_boundary)**2 + (R - R_boundary)**2
Dist2(z, r) == [m \in DOMAIN p_boundary |->
                   (z - p_boundary[m][1]) * (z - p_boundary[m][1])
                   + (r - p_boundary[m][2]) * (r - p_boundary[m][2])]

\* the index of the last occurrence of the minimum
argmin_last(d) ==
    CHOOSE m \in DOMAIN d : (\A j \in DOMAIN d : d[m] <= d[j])
                            /\ (\A j \in DOMAIN d : j > m => d[j] > d[m])
RECURSIVE ArgminScan(_, _, _)
\* the scan of np.argmin from index m on, best being the index kept so far
ArgminScan(d, m, best) ==
    IF m > Len(d) THEN best
    ELSE ArgminScan(d, m + 1, IF d[m] < d[best] THEN m ELSE best)
\* np.argmin(d): the index of the first occurrence of the minimum
argmin(d) == ArgminScan(d, 1, 1)

\* a_n + (Zout - Zn)*grad_Z + (Rout - Rn)*grad_R at the nearest boundary point
Extrapolated(f, z, r) ==
    LET vn == p_boundary[argmin(Dist2(z, r))]
        a_n == Interp(f, vn[1], vn[2])
        g == Gradient(f, vn[1], vn[2])
    IN  Add(a_n, Add(Mul(z - vn[1], g[1]), Mul(r - vn[2], g[2])))

\* out_mask = np.copy(self.psi_on_grid.mask)
out_mask == [pt \in GridPts |-> Interp(psi, z3D[pt], r3D[pt]) = NaN]
\* a = interp(Z2D, R2D); a[out_mask] = a_out
OnGridExtrapolated(f) ==
    [pt \in GridPts |->
        IF out_mask[pt] THEN Extrapolated(f, z3D[pt], r3D[pt])
        ELSE Interp(f, z3D[pt], r3D[pt])]
\* a = interp(z3D, r3D)
OnGridMasked(f) == [pt \in GridPts |-> Interp(f, z3D[pt], r3D[pt])]

Sq(x) == Mul(x, x)
Neg(x) == IF x = NaN THEN NaN ELSE 0 - x
\* np.sqrt(a**2 + b**2 + c**2)
Norm3(a, b, c) ==
    LET t == Add(Sq(a), Add(Sq(b), Sq(c))) IN IF t = NaN THEN NaN ELSE ISqrt(t)
\* np.cos, np.sin at the angles 0 and pi of the grid points
Pi == TwoPi(n_plane) \div 2
Cos(a) == IF a = 0 THEN 1 ELSE 0 - 1
Sin(a) == 0

\* interpolate_all_on_grid_2D, lines 1048-1096: psi and B on a 2D grid
EquilibriumOnGrid2D ==
    /\ pc = "eq_ready" /\ dimension = 2
    /\ psi_on_grid' = OnGridExtrapolated(psi)
    /\ B_on_grid' = OnGridExtrapolated(B_total)
    /\ pc' = "eq_done"
    /\ UNCHANGED <<nodeVars, request, auxVars, gridVars, planeVars, traceVars, loaderVars, flucVars, interpVars,
                   equilibrium_mesh, psi, B_total, p_boundary, Bcomp_on_grid>>

\* interpolate_all_on_grid_3D, lines 1150-1216: equilibrium_mesh '2D'
EquilibriumOnGrid3D_2D ==
    /\ pc = "eq_ready" /\ dimension = 3 /\ equilibrium_mesh = "2D"
    /\ psi_on_grid' = OnGridExtrapolated(psi)
    /\ Bcomp_on_grid' = [BR_on_grid |-> OnGridExtrapolated(BRField),
                         BZ_on_grid |-> OnGridExtrapolated(BZField),
                         BPhi_on_grid |-> OnGridExtrapolated(BPhiField)]
    /\ B_on_grid' = [pt \in GridPts |->
                        Norm3(Bcomp_on_grid'.BR_on_grid[pt], Bcomp_on_grid'.BZ_on_grid[pt],
                              Bcomp_on_grid'.BPhi_on_grid[pt])]
    /\ pc' = "eq_done"
    /\ UNCHANGED <<nodeVars, request, auxVars, gridVars, planeVars, traceVars, loaderVars, flucVars, interpVars,
                   equilibrium_mesh, psi, B_total, p_boundary>>

\* interpolate_all_on_grid_3D, lines 1131-1149: equilibrium_mesh '3D'
EquilibriumOnGrid3D_3D ==
    /\ pc = "eq_ready" /\ dimension = 3 /\ equilibrium_mesh = "3D"
    /\ psi_on_grid' = OnGridMasked(psi)
    /\ LET br == OnGridMasked(BRField)
           bz == OnGridMasked(BZField)
           bphi == OnGridMasked(BPhiField)
       IN  Bcomp_on_grid' =
             [BX_on_grid |-> [pt \in GridPts |->
                        Add(Mul(Neg(bphi[pt]), Sin(phi3D[pt])), Mul(br[pt], Cos(phi3D[pt])))],
              BY_on_grid |-> bz,
              BZ_on_grid |-> [pt \in GridPts |->
                        Add(Mul(Neg(br[pt]), Sin(phi3D[pt])),
                            Neg(Mul(bphi[pt], Cos(phi3D[pt]))))]]
    /\ B_on_grid' = [pt \in GridPts |->
                        Norm3(Bcomp_on_grid'.BX_on_grid[pt], Bcomp_on_grid'.BY_on_grid[pt],
                              Bcomp_on_grid'.BZ_on_grid[pt])]
    /\ pc' = "eq_done"
    /\ UNCHANGED <<nodeVars, request, auxVars, gridVars, planeVars, traceVars, loaderVars, flucVars, interpVars,
                   equilibrium_mesh, psi, B_total, p_boundary>>

\* the rectangles of grid points: rows Z = z0 .. z1, columns R = r0 .. r1
Ends == {0 - MeshRad - 1, 0, 1, MeshRad + 1}
Rects == {rc \in [z0 : Ends, z1 : Ends, r0 : Ends, r1 : Ends] : rc.z0 <= rc.z1 /\ rc.r0 <= rc.r1}
Width(rc) == rc.r1 - rc.r0 + 1
RectSize(rc) == (rc.z1 - rc.z0 + 1) * Width(rc)
\* Z2D and R2D, flattened
RectZ(rc) == [m \in 1 .. RectSize(rc) |-> rc.z0 + ((m - 1) \div Width(rc))]
RectR(rc) == [m \in 1 .. RectSize(rc) |-> Rc + rc.r0 + ((m - 1) % Width(rc))]

\* the loader at the entry of the grid interpolation, mesh, psi and B loaded
InitExtrap ==
    /\ pc = "eq_ready"
    /\ n_plane = 2
    /\ Bfield \in [kind : FieldKinds, sgn : {1, 0 - 1}]
    /\ CO_DIR = (Bfield.sgn > 0)
    /\ maskData = "nan"
    /\ psi \in PsiFields
    /\ B_total \in BtotalFields
    /\ \E k \in 0 .. 3 : p_boundary = Rotate(HullCorners, k)
    /\ \E rc \in Rects :
          /\ z3D = RectZ(rc)
          /\ r3D = RectR(rc)
          /\ \/ /\ dimension = 2
                /\ equilibrium_mesh = "2D"
                /\ phi3D = <<>>
                /\ grid = [kind |-> "2D", id |-> 1]
             \/ /\ dimension = 3
                /\ equilibrium_mesh \in {"2D", "3D"}
                /\ \E a \in {0, Pi} : phi3D = [m \in 1 .. RectSize(rc) |-> a]
                /\ grid = [kind |-> "3D", phi |-> phi3D, cyl |-> TRUE]
    /\ prevplane = <<>> /\ nextplane = <<>>
    /\ planes = <<>> /\ on_grid = <<>> /\ outcome = "none"
    /\ TraceIdle
    /\ FlucIdle
    /\ InterpIdle
    /\ psi_on_grid = <<>> /\ B_on_grid = <<>> /\ Bcomp_on_grid = <<>>
    /\ AuxIdle

NextExtrap ==
    \/ EquilibriumOnGrid2D
    \/ EquilibriumOnGrid3D_2D
    \/ EquilibriumOnGrid3D_3D

SpecExtrap == InitExtrap /\ [][NextExtrap]_vars

\* ------------------------------------------------------------------ C9
\* the equilibrium quantities extrapolated on this grid, with their node data
ExtrapolatedQuantities ==
    IF dimension = 2
    THEN {<<psi_on_grid, psi>>, <<B_on_grid, B_total>>}
    ELSE {<<psi_on_grid, psi>>, <<Bcomp_on_grid.BR_on_grid, BRField>>,
          <<Bcomp_on_grid.BZ_on_grid, BZField>>, <<Bcomp_on_grid.BPhi_on_grid, BPhiField>>}
\* m is the hull vertex nearest to (z, r), the first such vertex on a tie
NearestFirst(m, z, r) ==
    /\ \A j \in DOMAIN p_boundary : Dist2(z, r)[m] <= Dist2(z, r)[j]
    /\ \A j \in DOMAIN p_boundary : j < m => Dist2(z, r)[j] > Dist2(z, r)[m]

\* the linear continuation of f from boundary point m to (z, r)
ContinuedFrom(f, m, z, r) ==
    LET vn == p_boundary[m]
        g == Gradient(f, vn[1], vn[2])
    IN  FieldVal(f, vn[1], vn[2]) + (z - vn[1]) * g[1] + (r - vn[2]) * g[2]

\* C9: after the 2D pass, or the 3D pass with equilibrium_mesh '2D', every
\* grid point outside the hull holds a_n + (Z - Z_n)*da/dZ + (R - R_n)*da/dR
\* taken at the nearest hull vertex n (the first on a tie), for psi and each B
\* quantity, and every grid point inside the hull holds its interpolated value.
C9_NearestVertexExtrapolation ==
    (pc = "eq_done" /\ (dimension = 2 \/ equilibrium_mesh = "2D")) =>
        \A qf \in ExtrapolatedQuantities, pt \in GridPts :
            LET z == z3D[pt]
                r == r3D[pt]
                f == qf[2]
            IN  IF InHull(z, r)
                THEN qf[1][pt] = FieldVal(f, z, r)
                ELSE \E m \in DOMAIN p_boundary :
                        /\ NearestFirst(m, z, r)
                        /\ qf[1][pt] = ContinuedFrom(f, m, z, r)

\* a grid point outside the hull with two nearest vertices whose continuations
\* of psi differ, holding the first one's; and a grid point inside the hull
C9_Witness ==
    /\ pc = "eq_done" /\ dimension = 3 /\ equilibrium_mesh = "2D"
    /\ \E pt \in GridPts, m \in DOMAIN p_boundary, j \in DOMAIN p_boundary :
          /\ ~InHull(z3D[pt], r3D[pt])
          /\ m # j
          /\ Dist2(z3D[pt], r3D[pt])[m] = Dist2(z3D[pt], r3D[pt])[j]
          /\ NearestFirst(m, z3D[pt], r3D[pt])
          /\ psi_on_grid[pt] = ContinuedFrom(psi, m, z3D[pt], r3D[pt])
          /\ psi_on_grid[pt] # ContinuedFrom(psi, j, z3D[pt], r3D[pt])
          /\ psi_on_grid[pt] # FieldVal(psi, p_boundary[m][1], p_boundary[m][2])
    /\ \E pt \in GridPts : InHull(z3D[pt], r3D[pt])

\* ----------------------------------------------------------------- C10
\* C10: after a resampling pass (2D grid, or 3D grid with either equilibrium
\* mesh) psi_on_grid and the on-grid magnetic field arrays hold a defined
\* value at every grid point, the points outside the hull included.
C10_FullyPopulated ==
    pc = "eq_done" =>
        \A pt \in GridPts :
            /\ psi_on_grid[pt] # NaN
            /\ B_on_grid[pt] # NaN
            /\ \A c \in DOMAIN Bcomp_on_grid : Bcomp_on_grid[c][pt] # NaN

\* ----------------------------------------------------------------- C11
\* both landing positions of grid point pt are outside the mesh convex hull
LandsOutside(pt) ==
    LET ip == interp_positions[pt]
    IN  ~InHull(ip[1][1], ip[1][2]) /\ ~InHull(ip[2][1], ip[2][2])

\* C11 (3D pass): a landing position outside the hull contributes 0 as its
\* plane's value, so a grid point whose two landing positions are both
\* outside the hull holds exactly 0 in every resampled fluctuation array.
C11_ZeroOutsideHull ==
    (pc = "interp_done" /\ outcome = "ok") =>
        \A qty \in {"dne_ad", "nane", "dni"} : Resampled(qty) =>
            \A k \in 0 .. (n_cross_section - 1), i \in 0 .. (time_steps - 1), pt \in Pts :
                LandsOutside(pt) => IsZero(OnGridOf(qty)[k][i][pt])

\* ------------------------------------- fluctuations on a 2D grid
\* node data of a stored quantity of a 2D loader: level c, cross-section j,
\* time step i; zero on the line Z + R = Rc, both signs elsewhere
NodeData2D(c, j, i) == [n \in MeshNodes |-> (c + j + 2 * i) * (n[1] + n[2] - Rc)]
\* a stored array of shape (n_cross_section, len(time_steps), nodes)
StoredArray2D(c) ==
    [j \in 0 .. (n_cross_section - 1) |->
        [i \in 0 .. (time_steps - 1) |-> NodeData2D(c, j, i)]]

\* the array an attribute already holds, zeros when it holds none
KeptOrZeros2D(old) ==
    IF DOMAIN old = {}
    THEN [j \in 0 .. (n_cross_section - 1) |->
             [i \in 0 .. (time_steps - 1) |-> [pt \in GridPts |-> 0]]]
    ELSE old
\* lines 1099-1105: np.zeros(...), np.zeros_like(self.phi_on_grid): a new
\* array, whatever the attribute held before
NewZeros2D(old) ==
    [j \in 0 .. (n_cross_section - 1) |->
        [i \in 0 .. (time_steps - 1) |-> [pt \in GridPts |-> 0]]]

\* lines 1109-1116: a[i,j,...] += CloughTocher2DInterpolator(Delaunay,
\* stored[i,j,:], fill_value = 0)((Z2D, R2D)), added to the array base
OnGrid2DOf(base, stored) ==
    [j \in 0 .. (n_cross_section - 1) |->
        [i \in 0 .. (time_steps - 1) |->
            [pt \in GridPts |->
                base[j][i][pt] + CloughTocherOn(stored[j][i], z3D[pt], r3D[pt])]]]

\* interp_check lines 1305-1317: the mesh nodes strictly inside the range of
\* the grid's R1D and Z1D
InsideNodes ==
    LET Rmin == r3D[1]
        Rmax == r3D[Len(r3D)]
        Zmin == z3D[1]
        Zmax == z3D[Len(z3D)]
    IN  {n \in MeshNodes : n[2] > Rmin /\ n[2] < Rmax /\ n[1] > Zmin /\ n[1] < Zmax}

\* tolerances in percent: tol = 0.2 is 20
Tols == {20, 40, 100}
\* what a RectBivariateSpline(...).ev gives at a node where the original
\* value is v: the shapes of back-interpolation error
BackPatterns == {"exact", "plus1", "double", "zero"}
BackValue(pat, v) ==
    CASE pat = "exact" -> v
      [] pat = "plus1" -> v + 1
      [] pat = "double" -> 2 * v
      [] OTHER -> 0

\* np.abs((a_in - a_interp) / a_interp) > tol, tol in percent; x/0 is inf for
\* x # 0 and 0/0 is nan, which compares False
ExceedsNot(a_in, a_interp, tol) ==
    IF a_interp = 0 THEN a_in = 0
    ELSE 100 * Abs(a_in - a_interp) < tol * Abs(a_interp)
ExceedsTol(a_in, a_interp, tol) ==
    IF a_interp = 0 THEN a_in # 0
    ELSE 100 * Abs(a_in - a_interp) > tol * Abs(a_interp)

\* np.max(np.abs(a_in)) over the inside nodes
MaxAbs(a_in) == CHOOSE m \in {Abs(a_in[n]) : n \in InsideNodes} :
                    \A n \in InsideNodes : Abs(a_in[n]) <= m
\* lines 1336-1342: the nodes whose error exceeds tol and whose original value
\* is greater than 1e-2 of the largest original value
TrueViolations(a_in, a_interp, tol) ==
    {n \in InsideNodes :
        /\ ExceedsTol(a_in[n], a_interp[n], tol)
        /\ 100 * Abs(a_in[n]) > MaxAbs(a_in)}
\* lines 1357-1358: (R, Z, original, interpolated) of each violation
ErrorInfo(a_in, a_interp, vio) == {<<n[2], n[1], a_in[n], a_interp[n]>> : n \in vio}

\* interp_check(tol) on a 2D loader: how the call ends and what it returns
interp_check(tol) ==
    IF ~HaveElectron
    THEN [raised |-> "AttributeError"]            \* line 1323: self.nane
    ELSE IF InsideNodes = {}
    THEN [raised |-> "ValueError"]                \* line 1341: np.max of nothing
    ELSE LET dne_ad_in == dne_ad[0][0]
             nane_in == fluc["nane"][0][0]
             dne_ad_interp == [n \in MeshNodes |-> BackValue(back_interp.dne_ad, dne_ad_in[n])]
             nane_interp == [n \in MeshNodes |-> BackValue(back_interp.nane, nane_in[n])]
             ad == TrueViolations(dne_ad_in, dne_ad_interp, tol)
             na == TrueViolations(nane_in, nane_interp, tol)
         IN  [raised |-> "none",
              check_pass |-> (ad = {} /\ na = {}),
              adiabatic_error_info |-> ErrorInfo(dne_ad_in, dne_ad_interp, ad),
              non_adiabatic_error_info |-> ErrorInfo(nane_in, nane_interp, na)]

\* check_report after a call that returned rep for tolerance tol
Reported(tol, rep) ==
    [t \in (DOMAIN check_report) \cup {tol} |-> IF t = tol THEN rep ELSE check_report[t]]

\* interpolate_all_on_grid_2D lines 1099-1118: the fluctuation arrays are
\* allocated and filled, then interp_check() is called with tol = 0.2
FluctuationsOnGrid2D ==
    /\ pc \in {"interp2d_ready", "interp2d_done"}
    /\ phi_on_grid' = OnGrid2DOf(NewZeros2D(phi_on_grid), fluc["phi"])
    /\ dne_ad_on_grid' = OnGrid2DOf(NewZeros2D(dne_ad_on_grid), dne_ad)
    /\ dni_ad_on_grid' = "zeros_2D"
    /\ nane_on_grid' = IF HaveElectron
                       THEN OnGrid2DOf(NewZeros2D(nane_on_grid), fluc["nane"])
                       ELSE nane_on_grid
    /\ dni_on_grid' = IF load_ions
                      THEN OnGrid2DOf(NewZeros2D(dni_on_grid), fluc["dni"])
                      ELSE dni_on_grid
    /\ LET rep == interp_check(20)
       IN  IF rep.raised = "none"
           THEN outcome' = "ok" /\ check_report' = Reported(20, rep)
           ELSE outcome' = rep.raised /\ UNCHANGED check_report
    /\ pc' = "interp2d_done"
    /\ UNCHANGED <<gridVars, planeVars, fwdVars, bwdVars, ind, interp_positions, flucVars,
                   eqVars, dne_ad, loop_ki, grid, dimension, planes, on_grid, te0,
                   Fluc_Filtering, back_interp, nefile, request, nodeVars>>

\* a call of interp_check(tol) by the user of a loader whose 2D pass is over
InterpCheck ==
    /\ pc = "interp2d_done"
    /\ \E tol \in Tols :
          LET rep == interp_check(tol)
          IN  IF rep.raised = "none"
              THEN outcome' = "ok" /\ check_report' = Reported(tol, rep)
              ELSE outcome' = rep.raised /\ UNCHANGED check_report
    /\ UNCHANGED <<pc, gridVars, planeVars, traceVars, flucVars, interpVars, eqVars, grid,
                   dimension, planes, on_grid, phi_on_grid, te0, Fluc_Filtering, back_interp,
                   nefile, request, nodeVars>>

\* the grids of a 2D loader: at least two rows and two columns
Rects2D == {rc \in Rects : rc.z0 < rc.z1 /\ rc.r0 < rc.r1}

\* the loader inside interpolate_all_on_grid_2D at line 1099, the
\* fluctuations loaded and the adiabatic response calculated
InitInterp2D ==
    /\ pc = "interp2d_ready"
    /\ n_plane = MaxPlanes
    /\ CO_DIR = TRUE
    /\ phi3D = <<>>
    /\ \E rc \in Rects2D : z3D = RectZ(rc) /\ r3D = RectR(rc)
    /\ Bfield = NoField /\ maskData = "nan"
    /\ prevplane = <<>> /\ nextplane = <<>>
    /\ TraceIdle
    /\ grid = [kind |-> "2D", id |-> 1] /\ dimension = 2
    /\ on_grid = <<>> /\ outcome = "none"
    /\ time_steps \in 1 .. MaxSteps
    /\ n_cross_section \in {1, n_plane}
    /\ planes = Planes2D
    /\ HaveElectron \in BOOLEAN
    /\ load_ions \in BOOLEAN
    /\ files = <<>> /\ center_planes = <<>>
    /\ ne0 = Eq0 /\ ni0 = Eq0
    /\ fluc = [qty \in Quantities |->
                 CASE qty = "phi" -> StoredArray2D(1)
                   [] qty = "nane" -> IF HaveElectron THEN StoredArray2D(3) ELSE <<>>
                   [] qty = "dni" -> IF load_ions THEN StoredArray2D(4) ELSE <<>>]
    /\ dne_ad = StoredArray2D(2)
    /\ nane_on_grid = <<>> /\ dni_on_grid = <<>>
    /\ dni_ad_on_grid = "absent" /\ loop_ki = <<0, 0>>
    /\ EqIdle
    /\ phi_on_grid = <<>> /\ te0 = <<>> /\ Fluc_Filtering = FALSE
    /\ back_interp \in [dne_ad : BackPatterns, nane : {"exact", "plus1", "zero"}]
    /\ check_report = <<>> /\ nefile = <<>> /\ request = NoGrid /\ NodeIdle

NextInterp2D ==
    \/ FluctuationsOnGrid2D
    \/ InterpCheck

SpecInterp2D == InitInterp2D /\ [][NextInterp2D]_vars

\* the 2D part of C11: after the 2D pass every grid point outside the mesh
\* convex hull holds exactly 0 in phi, dne_ad, nane and dni
ZeroOutsideHull2D ==
    pc = "interp2d_done" =>
        \A j \in 0 .. (n_cross_section - 1), i \in 0 .. (time_steps - 1), pt \in GridPts :
            ~InHull(z3D[pt], r3D[pt]) =>
                /\ phi_on_grid[j][i][pt] = 0
                /\ dne_ad_on_grid[j][i][pt] = 0
                /\ HaveElectron => nane_on_grid[j][i][pt] = 0
                /\ load_ions => dni_on_grid[j][i][pt] = 0

\* ----------------------------------------------------------------- C12
\* C12: interp_check, run at the end of every 2D pass, never raises, with or
\* without electron dynamics and with or without ions: the pass ends
\* normally and every call leaves a report (check_pass, adiabatic
\* violations, non-adiabatic violations).
C12_SelfCheckNonFatal ==
    pc = "interp2d_done" =>
        /\ outcome = "ok"
        /\ 20 \in DOMAIN check_report
        /\ \A t \in DOMAIN check_report :
              DOMAIN check_report[t] = {"raised", "check_pass", "adiabatic_error_info",
                                        "non_adiabatic_error_info"}

\* ----------------------------------------------------------------- C19
\* the violations of a report, adiabatic and non-adiabatic
Violations(rep) ==
    {<<"ad", v>> : v \in rep.adiabatic_error_info}
        \cup {<<"na", v>> : v \in rep.non_adiabatic_error_info}

\* C19: for the same loaded data and tol1 <= tol2, every violation reported
\* by interp_check at tol2 is reported at tol1, and check_pass is True
\* exactly when both violation sets of the report are empty.
C19_ToleranceMonotone ==
    /\ \A t1 \in DOMAIN check_report, t2 \in DOMAIN check_report :
          t1 <= t2 => Violations(check_report[t2]) \subseteq Violations(check_report[t1])
    /\ \A t \in DOMAIN check_report :
          check_report[t].check_pass <=> Violations(check_report[t]) = {}

\* reports at three tolerances, each tightening adding violations, of both
\* kinds, and a report that passes next to one that does not
C19_Witness ==
    /\ DOMAIN check_report = Tols
    /\ Violations(check_report[100]) # {}
    /\ Violations(check_report[100]) # Violations(check_report[40])
    /\ Violations(check_report[40]) # Violations(check_report[20])
    /\ check_report[20].adiabatic_error_info # {}
    /\ check_report[20].non_adiabatic_error_info # {}

\* ----------------------------------------------------------------- C25
\* the resampling passes of a loader, on a 3D grid or on a 2D grid, each
\* repeated at will
InitResample ==
    \/ InitInterp3D /\ maskData = "nan"
    \/ InitInterp2D /\ back_interp = [dne_ad |-> "exact", nane |-> "exact"]

NextResample ==
    \/ Interp3DBegin
    \/ Interp3DPair
    \/ FluctuationsOnGrid2D
    \/ InterpCheck

SpecResample == InitResample /\ [][NextResample]_vars

\* the arrays a 2D pass makes of a stored array, from the inputs alone
Resampled2D(stored) ==
    [j \in 0 .. (n_cross_section - 1) |->
        [i \in 0 .. (time_steps - 1) |->
            [pt \in GridPts |-> CloughTocherOn(stored[j][i], z3D[pt], r3D[pt])]]]

\* the inputs of tracing and interpolation
ResampleInputs ==
    <<equilibrium_mesh, psi, B_total, p_boundary, Bfield, maskData, n_plane, CO_DIR,
      fluc, dne_ad, time_steps, n_cross_section, center_planes,
      r3D, z3D, phi3D, grid, prevplane, nextplane, planes>>

\* C25: tracing and the 2D and 3D grid interpolation leave the mesh, psi,
\* the B arrays, the per-plane fluctuation arrays, the grid coordinates and
\* prevplane/nextplane unchanged; the on-grid arrays are made anew in every
\* call: a call begins from zeros, a completed call leaves arrays that are a
\* function of the inputs alone, and repeating a 2D call changes nothing.
C25_ReadOnlyFreshOutputs ==
    [][/\ UNCHANGED ResampleInputs
       /\ (pc' = "interp_loop" /\ pc # "interp_loop") => dne_ad_on_grid' = ZerosOnGrid
       /\ (pc' = "interp_done" /\ outcome' = "ok") =>
              LET ip == [pt \in Pts |-> find_interp_positions_v2_upgrade(pt)]
              IN  /\ dne_ad_on_grid' = AllPairs("dne_ad", ip)
                  /\ HaveElectron => nane_on_grid' = AllPairs("nane", ip)
                  /\ load_ions => dni_on_grid' = AllPairs("dni", ip)
       /\ pc' = "interp2d_done" =>
              /\ phi_on_grid' = Resampled2D(fluc["phi"])
              /\ dne_ad_on_grid' = Resampled2D(dne_ad)
              /\ HaveElectron => nane_on_grid' = Resampled2D(fluc["nane"])
              /\ load_ions => dni_on_grid' = Resampled2D(fluc["dni"])
       /\ (pc = "interp2d_done" /\ pc' = "interp2d_done") =>
              UNCHANGED <<phi_on_grid, dne_ad_on_grid, nane_on_grid, dni_on_grid>>
      ]_vars

\* a 3D call begun after a completed one: the arrays the earlier call filled
\* with non-zero values hold zeros again
C25_Witness ==
    /\ pc = "interp_loop" /\ outcome = "ok" /\ loop_ki = <<0, 0>>
    /\ dne_ad_on_grid = ZerosOnGrid
    /\ AllPairs("dne_ad", interp_positions) # ZerosOnGrid

\* a 2D pass over, with non-zero values on the grid
Resampled2DNonZero ==
    /\ pc = "interp2d_done"
    /\ \E j \in 0 .. (n_cross_section - 1), i \in 0 .. (time_steps - 1), pt \in GridPts :
          phi_on_grid[j][i][pt] # 0 /\ dne_ad_on_grid[j][i][pt] # 0

\* ----------------------------------------------------------------- C13
\* C13: when more cross-sections are requested than the simulation has
\* planes, the fluctuation loader raises before any fluctuation array is
\* filled; it never completes with planes selected.
C13_InconsistencyFatal ==
    (pc = "fluc_loaded" /\ n_cross_section > n_plane) =>
        /\ outcome = "XGC_Loader_Error"
        /\ fluc = <<>>

\* ----------------------------------------------------------------- C16
\* the average over all simulation planes and all chosen time steps of the
\* file data of a quantity at node n
TrueRelaxation(qty, n) ==
    [n |-> Sum0([i \in 0 .. (time_steps - 1) |->
                    Sum0([q \in 0 .. (n_plane - 1) |->
                             FileData(files[Dataset(qty)], q, i, n)], n_plane)],
                time_steps),
     d |-> n_plane * time_steps]
\* n0 + <delta_n>_zeta_t of a species, n0 alone when its perturbation is not loaded
EffectiveEquilibrium(qty, n) ==
    IF Loaded(qty) THEN RatAdd(Eq0[n], TrueRelaxation(qty, n)) ELSE Eq0[n]

\* C16: after a fluctuation-only load the stored equilibrium density of a
\* species at each node is its input value plus the time-and-toroidal average
\* of that species' own density perturbation, and nothing else.
C16_EffectiveEquilibrium ==
    pc = "fluc_loaded" =>
        \A n \in MeshNodes :
            /\ RatEq(ne0[n], EffectiveEquilibrium("nane", n))
            /\ RatEq(ni0[n], EffectiveEquilibrium("dni", n))

\* ------------------------------------------------- relaxation filtering
\* Node profiles that fall off towards the edge of the mesh: lvl at the
\* centre, one less per step away from it (zero or negative near the edge).
EdgeProfile(lvl) == [n \in MeshNodes |-> lvl - Abs(n[1]) - Abs(n[2] - Rc)]
EdgeDensity(lvl) == [n \in MeshNodes |-> [n |-> EdgeProfile(lvl)[n], d |-> 1]]
\* a stored fluctuation array of shape (n_cross_section, len(time_steps), nodes)
StoredFluct(c) ==
    [j \in 0 .. (n_cross_section - 1) |->
        [i \in 0 .. (time_steps - 1) |->
            [n \in MeshNodes |-> [n |-> NodeData2D(c, j, i)[n], d |-> 1]]]]

\* np.absolute(v) > np.absolute(bound), on fractions with positive denominators
AbsGreater(v, bound) == Abs(v.n) * bound.d > Abs(bound.n) * v.d
\* the comparison without np.absolute
SignedGreater(v, bound) == v.n * bound.d > bound.n * v.d

\* lines 1024-1025, 1028-1029, 1032-1033: whether an entry is set to 0
InvalidMask(v, bound) == AbsGreater(v, bound)
\* a[invalid_mask] = 0
Filtered(a, bound) ==
    [j \in DOMAIN a |->
        [i \in DOMAIN a[j] |->
            [n \in MeshNodes |-> IF InvalidMask(a[j][i][n], bound[n]) THEN Zero ELSE a[j][i][n]]]]

\* lines 1019-1021: np.zeros, then on the nodes with te0 > 0
\* dne_ad += ne0 * phi / te0
AdiabaticResponse ==
    [j \in DOMAIN fluc.phi |->
        [i \in DOMAIN fluc.phi[j] |->
            [n \in MeshNodes |->
                IF te0[n] > 0
                THEN [n |-> ne0[n].n * fluc.phi[j][i][n].n,
                      d |-> ne0[n].d * fluc.phi[j][i][n].d * te0[n]]
                ELSE Zero]]]

\* calculate_dne_ad_2D3D, lines 1012-1034
calculate_dne_ad_2D3D ==
    /\ pc = "filter_ready"
    /\ dne_ad' = IF Fluc_Filtering THEN Filtered(AdiabaticResponse, ne0) ELSE AdiabaticResponse
    /\ fluc' = [fluc EXCEPT
                  !.nane = IF Fluc_Filtering /\ HaveElectron THEN Filtered(@, ne0) ELSE @,
                  !.dni = IF Fluc_Filtering /\ load_ions THEN Filtered(@, ni0) ELSE @]
    /\ pc' = "filtered"
    /\ UNCHANGED <<nodeVars, request, gridVars, planeVars, traceVars, loaderVars, eqVars, time_steps,
                   n_cross_section, HaveElectron, load_ions, files, center_planes, ne0, ni0,
                   nane_on_grid, dni_on_grid, dni_ad_on_grid, loop_ki, auxVars>>

FilterLevels == {2, 3}
FilterAmplitudes == {0, 1}

\* the loader in __init__ after the fluctuations and the equilibrium are
\* loaded (lines 474-479, 504-510), before calculate_dne_ad_2D3D
InitFilter ==
    /\ pc = "filter_ready"
    /\ n_plane = 1 /\ CO_DIR = TRUE
    /\ phi3D = <<>> /\ r3D = <<>> /\ z3D = <<>>
    /\ Bfield = NoField /\ maskData = "nan"
    /\ prevplane = <<>> /\ nextplane = <<>>
    /\ TraceIdle
    /\ LoaderIdle
    /\ time_steps \in 1 .. MaxSteps
    /\ n_cross_section = 1
    /\ HaveElectron \in BOOLEAN
    /\ load_ions \in BOOLEAN
    /\ files = <<>> /\ center_planes = <<>>
    /\ \E lvl \in FilterLevels : ne0 = EdgeDensity(lvl)
    /\ \E lvl \in FilterLevels : ni0 = EdgeDensity(lvl)
    /\ \E c \in FilterAmplitudes :
          fluc = [phi |-> StoredFluct(c + 1),
                  nane |-> IF HaveElectron THEN StoredFluct(c) ELSE <<>>,
                  dni |-> IF load_ions THEN StoredFluct(2 - c) ELSE <<>>]
    /\ InterpIdle
    /\ EqIdle
    /\ phi_on_grid = <<>>
    /\ \E lvl \in FilterLevels : te0 = EdgeProfile(lvl)
    /\ Fluc_Filtering \in BOOLEAN
    /\ back_interp = <<>> /\ check_report = <<>> /\ nefile = <<>> /\ request = NoGrid /\ NodeIdle

NextFilter == calculate_dne_ad_2D3D

SpecFilter == InitFilter /\ [][NextFilter]_vars

\* ----------------------------------------------------------------- C15
\* |v| <= |bound|
Within(v, bound) == Abs(v.n) * bound.d <= Abs(bound.n) * v.d
\* what filtering against bound makes of the array a: entries beyond the
\* bound are 0, the others are the entries of a
ClampedTo(after, a, bound) ==
    \A j \in DOMAIN a : \A i \in DOMAIN a[j] : \A n \in MeshNodes :
        /\ Within(after[j][i][n], bound[n])
        /\ after[j][i][n] = IF Within(a[j][i][n], bound[n]) THEN a[j][i][n] ELSE Zero

\* C15: with Fluc_Filtering, calculate_dne_ad_2D3D leaves every entry of
\* dne_ad and of a loaded nane within |ne0| of its node and every entry of a
\* loaded dni within |ni0|, entries beyond the bound being 0 and all others
\* unchanged; without Fluc_Filtering no entry of any quantity is changed.
C15_RelaxationFiltering ==
    [][(pc = "filter_ready" /\ pc' = "filtered") =>
          /\ fluc'.phi = fluc.phi
          /\ IF Fluc_Filtering
             THEN /\ ClampedTo(dne_ad', AdiabaticResponse, ne0)
                  /\ HaveElectron => ClampedTo(fluc'.nane, fluc.nane, ne0)
                  /\ load_ions => ClampedTo(fluc'.dni, fluc.dni, ni0)
             ELSE /\ dne_ad' = AdiabaticResponse
                  /\ fluc' = fluc]_vars

\* an array with an entry set to 0 at a node where the data is not 0, and an
\* entry that is kept
PartlyClamped(a) ==
    /\ \E n \in MeshNodes : n[1] + n[2] # Rc /\ a[0][0][n] = Zero
    /\ \E n \in MeshNodes : a[0][0][n].n < 0

\* filtering has clamped some and kept some entries of each quantity
C15_Witness ==
    /\ pc = "filtered" /\ Fluc_Filtering /\ HaveElectron /\ load_ions
    /\ PartlyClamped(fluc.nane)
    /\ PartlyClamped(fluc.dni)
    /\ \E n \in MeshNodes :
          /\ AdiabaticResponse[0][0][n].n # 0
          /\ dne_ad[0][0][n] = Zero
    /\ \E n \in MeshNodes : dne_ad[0][0][n].n < 0

\* ------------------------------------------------ toroidal decomposition
\* Per-plane data of one quantity: m: a part common to all planes (its
\* toroidal mean), a: the amplitude of a part that varies from plane to plane
\* and sums to zero over the planes, b: variation from file to file.
DecompPatterns == [m : {0, 1}, a : {0, 1, 2}, b : {0, 1}]
RawData(pat, q, i, n) ==
    pat.m * (pat.b * i + n[1] + n[2]) + pat.a * (2 * q - (n_plane - 1)) * (n[1] - n[2] + i)

\* lines 812-822 and 931-942 on every plane: all[q] - np.average(all, axis = 0).
\* The array holds the numerators of its values over the common denominator den.
SubtractToroidalAverage(arr) ==
    [num |-> [q \in 0 .. (n_plane - 1) |->
                 [i \in 0 .. (time_steps - 1) |->
                     [n \in MeshNodes |->
                         LessAvg(arr.num[q][i][n], avg_tor(arr.num)[i][n]).n]]],
     den |-> arr.den * n_plane]

\* the toroidal average is removed from the array held in fluc
RemoveAverage ==
    /\ pc \in {"raw", "once"}
    /\ fluc' = SubtractToroidalAverage(fluc)
    /\ pc' = IF pc = "raw" THEN "once" ELSE "twice"
    /\ UNCHANGED <<nodeVars, request, gridVars, planeVars, traceVars, loaderVars, eqVars, interpVars,
                   time_steps, n_cross_section, HaveElectron, load_ions, files, center_planes,
                   ne0, ni0, auxVars>>

\* per-plane data of one quantity as read from the files of the chosen time
\* steps (lines 782-801, 913-925)
InitDecomp ==
    /\ pc = "raw"
    /\ n_plane \in 1 .. MaxPlanes
    /\ CO_DIR = TRUE
    /\ phi3D = <<>> /\ r3D = <<>> /\ z3D = <<>>
    /\ Bfield = NoField /\ maskData = "nan"
    /\ prevplane = <<>> /\ nextplane = <<>>
    /\ TraceIdle
    /\ LoaderIdle
    /\ time_steps \in 1 .. MaxSteps
    /\ n_cross_section = 1
    /\ HaveElectron = FALSE /\ load_ions = FALSE
    /\ files \in DecompPatterns
    /\ center_planes = <<>>
    /\ fluc = [num |-> [q \in 0 .. (n_plane - 1) |->
                          [i \in 0 .. (time_steps - 1) |->
                              [n \in MeshNodes |-> RawData(files, q, i, n)]]],
               den |-> 1]
    /\ ne0 = <<>> /\ ni0 = <<>>
    /\ InterpIdle
    /\ EqIdle
    /\ AuxIdle

NextDecomp == RemoveAverage

SpecDecomp == InitDecomp /\ [][NextDecomp]_vars

\* ----------------------------------------------------------------- C18
\* two arrays hold the same values
SameValues(x, y) ==
    \A q \in 0 .. (n_plane - 1) : \A i \in 0 .. (time_steps - 1) : \A n \in MeshNodes :
        x.num[q][i][n] * y.den = y.num[q][i][n] * x.den
\* the toroidal average of the array is zero at every node and time step
ZeroToroidalAverage(arr) ==
    \A i \in 0 .. (time_steps - 1) : \A n \in MeshNodes :
        Sum0([q \in 0 .. (n_plane - 1) |-> arr.num[q][i][n]], n_plane) = 0

\* C18: removing the toroidal average leaves data whose toroidal average is
\* zero at every node and time step unchanged, and removing it a second time
\* changes nothing for any data.
C18_DecompositionIdempotent ==
    [][/\ (pc = "raw" /\ pc' = "once" /\ ZeroToroidalAverage(fluc)) => SameValues(fluc', fluc)
       /\ (pc = "once" /\ pc' = "twice") => SameValues(fluc', fluc)]_vars

\* the average has been removed twice from data on several planes that had a
\* toroidal mean and a plane-to-plane variation
C18_Witness ==
    /\ pc = "twice"
    /\ n_plane >= 2 /\ files.m = 1
    /\ \E n \in MeshNodes : fluc.num[0][0][n] # fluc.num[1][0][n]
    /\ \E n \in MeshNodes :
          fluc.num[0][0][n] # RawData(files, 0, 0, n) * fluc.den

\* ----------------------------------------------------------------- C17
\* a blend fraction within [0, 1]
UnitFrac(f) == f.n # NaN /\ f.d > 0 /\ 0 <= f.n /\ f.n <= f.d
\* the value line 1253 gives query point i when every plane stores the node
\* data of plane 0
UniformBlend(i) ==
    LET ip == interp_positions[i]
    IN  Blend(CloughTocher(0, ip[1][1], ip[1][2]), CloughTocher(0, ip[2][1], ip[2][2]),
              ip[2][3], ip[1][3])
Reproduced(i) ==
    LET ip == interp_positions[i]
    IN  /\ UnitFrac(ip[1][3]) /\ UnitFrac(ip[2][3])
        /\ ip[1][3].d = ip[2][3].d /\ ip[1][3].n + ip[2][3].n = ip[1][3].d
        /\ IsValue(UniformBlend(i), CloughTocher(0, z3D[i], r3D[i]))

\* C17: with B_R = B_Z = 0 and the same node data on every plane, at every
\* query point and toroidal position both blend weights are in [0, 1], they
\* sum to 1, and the blended value is the data interpolated at the point's
\* own (R, Z).
C17_UniformFieldReproduced ==
    (pc \in {"traced", "done"} /\ Bfield.kind = "toroidal") =>
        \A i \in Pts : Reproduced(i)

\* the same for the query points inside the mesh convex hull only
UniformFieldReproducedInHull ==
    (pc \in {"traced", "done"} /\ Bfield.kind = "toroidal") =>
        \A i \in Pts : InHull(z3D[i], r3D[i]) => Reproduced(i)

\* --------------------------------------------------------- save and load
\* In this part on_grid holds the attributes of the loader that save and load
\* touch, by name, each with the array it holds: <<what was computed, by which
\* loader run>>; nefile holds the arrays of the .npz file by key.
Computed(attr, run) == <<attr, run>>

\* the attributes a fully loaded XGC_Loader has
\* (interpolate_all_on_grid_2D lines 1052-1105, interpolate_all_on_grid_3D
\* lines 1131-1216 and 1222)
LoaderAttrs(dim, eqmesh, he) ==
    {"grid", "mesh", "dne_ad", "dne_ad_on_grid", "psi_on_grid", "B_on_grid",
     "ne0_on_grid", "ni0_on_grid"}
    \cup (IF he THEN {"nane", "nane_on_grid"} ELSE {})
    \cup (IF dim = 2 THEN {"te0_on_grid", "ti0_on_grid", "phi_on_grid", "dni_ad_on_grid"}
          ELSE IF eqmesh = "3D"
          THEN {"te_on_grid", "ti_on_grid", "BX_on_grid", "BY_on_grid", "BZ_on_grid"}
          ELSE {"te0_on_grid", "ti0_on_grid", "BR_on_grid", "BZ_on_grid", "BPhi_on_grid"})
FullyLoaded(dim, eqmesh, he, run) ==
    [a \in LoaderAttrs(dim, eqmesh, he) |-> Computed(a, run)]

\* save lines 1393-1422: saving_dic, the attribute read for each key
saving_dic ==
    LET common == {<<"dne_ad", "dne_ad_on_grid">>, <<"ne0", "ne0_on_grid">>,
                   <<"dne_ad_org", "dne_ad">>, <<"X_origin", "mesh">>, <<"Y_origin", "mesh">>,
                   <<"Te0", "te0_on_grid">>, <<"Ti0", "ti0_on_grid">>, <<"psi", "psi_on_grid">>,
                   <<"X1D", "grid">>, <<"Y1D", "grid">>}
        electrons == IF HaveElectron
                     THEN {<<"nane", "nane_on_grid">>, <<"nane_org", "nane">>} ELSE {}
        field == IF dimension = 2 THEN {<<"B0", "B_on_grid">>}
                 ELSE {<<"Z1D", "grid">>} \cup
                      (IF equilibrium_mesh = "3D"
                       THEN {<<"B0", "BZ_on_grid">>, <<"BX", "BX_on_grid">>,
                             <<"BY", "BY_on_grid">>}
                       ELSE {<<"B0", "BPhi_on_grid">>, <<"BR", "BR_on_grid">>,
                             <<"BZ", "BZ_on_grid">>})
    IN  common \cup electrons \cup field
Keys(dic) == {e[1] : e \in dic}
AttrOf(dic, key) == (CHOOSE e \in dic : e[1] = key)[2]

\* save(fname), lines 1366-1423
save ==
    /\ pc \in {"loaded", "loaded_other"}
    /\ IF \E e \in saving_dic : e[2] \notin DOMAIN on_grid
       THEN /\ outcome' = "AttributeError"
            /\ pc' = "save_failed"
            /\ UNCHANGED nefile
       ELSE /\ nefile' = [k \in Keys(saving_dic) |-> on_grid[AttrOf(saving_dic, k)]]
            /\ outcome' = "ok"
            /\ pc' = "saved"
    /\ UNCHANGED <<nodeVars, request, gridVars, planeVars, traceVars, flucVars, interpVars, eqVars, grid,
                   dimension, planes, on_grid, phi_on_grid, te0, Fluc_Filtering, back_interp,
                   check_report>>

\* the file is handed to another fully loaded XGC_Loader
OtherLoader ==
    /\ pc = "saved"
    /\ \E dim \in {2, 3}, eqmesh \in {"2D", "3D"}, he \in BOOLEAN :
          /\ dimension' = dim
          /\ equilibrium_mesh' = eqmesh
          /\ HaveElectron' = he
          /\ on_grid' = FullyLoaded(dim, eqmesh, he, 2)
    /\ outcome' = "ok"
    /\ pc' = "loaded_other"
    /\ UNCHANGED <<nodeVars, request, gridVars, planeVars, traceVars, interpVars, grid, planes,
                   time_steps, n_cross_section, load_ions, files, center_planes, fluc, ne0, ni0,
                   psi, B_total, p_boundary, psi_on_grid, B_on_grid, Bcomp_on_grid, auxVars>>

\* load lines 1434-1441: the locals dimension and equilibrium_mesh; the
\* latter is assigned only for a file with Z1D
FileDimension == IF "Z1D" \in DOMAIN nefile THEN 3 ELSE 2
FileMesh ==
    IF "Z1D" \in DOMAIN nefile
    THEN (IF "BR" \in DOMAIN nefile THEN "2D" ELSE "3D")
    ELSE "unbound"

\* load lines 1449-1477: the attribute each key is copied to
Restores ==
    {<<"X_origin", "mesh">>, <<"dne_ad_org", "dne_ad">>, <<"ne0", "ne0_on_grid">>,
     <<"dne_ad", "dne_ad_on_grid">>, <<"psi", "psi_on_grid">>,
     <<"Te0", "te_on_grid">>, <<"Ti0", "ti_on_grid">>}
    \cup (IF "nane" \in DOMAIN nefile
          THEN {<<"nane_org", "nane">>, <<"nane", "nane_on_grid">>} ELSE {})
    \cup (IF FileDimension = 2 THEN {<<"B0", "B_on_grid">>}
          ELSE IF FileMesh = "3D"
          THEN {<<"B0", "BZ_on_grid">>, <<"BX", "BX_on_grid">>, <<"BY", "BY_on_grid">>}
          ELSE {<<"B0", "BPhi_on_grid">>, <<"BR", "BR_on_grid">>, <<"BZ", "BZ_on_grid">>})
\* the attributes load computes from what it copied: ne_on_grid (lines 1454,
\* 1460), HaveElectrons (line 1457), B_on_grid of a 3D file (lines 1472, 1477)
Derives ==
    {"ne_on_grid"}
    \cup (IF "nane" \in DOMAIN nefile THEN {"HaveElectrons"} ELSE {})
    \cup (IF FileDimension = 3 THEN {"B_on_grid"} ELSE {})
Restored ==
    LET copied == {e[2] : e \in Restores}
        KeyOf(a) == (CHOOSE e \in Restores : e[2] = a)[1]
    IN  [a \in DOMAIN on_grid \cup copied \cup Derives |->
            IF a \in copied THEN nefile[KeyOf(a)]
            ELSE IF a \in Derives THEN Computed(a, nefile["ne0"][2])
            ELSE on_grid[a]]

\* how load(filename) ends, lines 1442-1445
LoadOutcome ==
    IF FileDimension # dimension THEN "XGC_Loader_Error"
    ELSE IF FileMesh = "unbound" THEN "UnboundLocalError"
    ELSE IF FileMesh # equilibrium_mesh THEN "XGC_Loader_Error"
    ELSE "ok"

\* load(filename), lines 1425-1477, of the file that save wrote
load ==
    /\ pc \in {"saved", "loaded_other"}
    /\ outcome' = LoadOutcome
    /\ on_grid' = IF LoadOutcome = "ok" THEN Restored ELSE on_grid
    /\ pc' = "load_done"
    /\ UNCHANGED <<nodeVars, request, gridVars, planeVars, traceVars, flucVars, interpVars, eqVars, grid,
                   dimension, planes, auxVars>>

\* a fully loaded XGC_Loader of either dimension and equilibrium mesh kind
InitSave ==
    /\ pc = "loaded"
    /\ n_plane = 1 /\ CO_DIR = TRUE
    /\ phi3D = <<>> /\ r3D = <<>> /\ z3D = <<>>
    /\ Bfield = NoField /\ maskData = "nan"
    /\ prevplane = <<>> /\ nextplane = <<>>
    /\ TraceIdle
    /\ grid = NoGrid /\ planes = <<>> /\ outcome = "ok"
    /\ dimension \in {2, 3}
    /\ equilibrium_mesh \in {"2D", "3D"}
    /\ HaveElectron \in BOOLEAN
    /\ on_grid = FullyLoaded(dimension, equilibrium_mesh, HaveElectron, 1)
    /\ time_steps = 0 /\ n_cross_section = 1 /\ load_ions = FALSE
    /\ files = <<>> /\ center_planes = <<>>
    /\ fluc = <<>> /\ ne0 = <<>> /\ ni0 = <<>>
    /\ InterpIdle
    /\ psi = <<>> /\ B_total = <<>> /\ p_boundary = <<>>
    /\ psi_on_grid = <<>> /\ B_on_grid = <<>> /\ Bcomp_on_grid = <<>>
    /\ AuxIdle

NextSave ==
    \/ save
    \/ OtherLoader
    \/ load

SpecSave == InitSave /\ [][NextSave]_vars

\* ----------------------------------------------------------------- C20
\* the on-grid arrays in the file, by key, with the attribute each was saved
\* from
SavedOnGrid ==
    {e \in {<<"dne_ad", "dne_ad_on_grid">>, <<"ne0", "ne0_on_grid">>,
             <<"Te0", "te0_on_grid">>, <<"Ti0", "ti0_on_grid">>, <<"psi", "psi_on_grid">>,
             <<"nane", "nane_on_grid">>, <<"BX", "BX_on_grid">>, <<"BY", "BY_on_grid">>,
             <<"BR", "BR_on_grid">>, <<"BZ", "BZ_on_grid">>,
             <<"B0", IF FileDimension = 2 THEN "B_on_grid"
                     ELSE IF FileMesh = "3D" THEN "BZ_on_grid" ELSE "BPhi_on_grid">>} :
        e[1] \in DOMAIN nefile}

\* C20: save succeeds on a loaded 2D or 3D loader; load of the file ends with
\* XGC_Loader_Error exactly when the dimension or the equilibrium-mesh kind of
\* the file differs from the loader's and with no other error, and otherwise
\* the loader's on-grid arrays are the arrays of the file.
C20_SaveLoadRoundTrip ==
    /\ pc \in {"saved", "save_failed"} => outcome = "ok"
    /\ pc = "load_done" =>
          /\ outcome \in {"ok", "XGC_Loader_Error"}
          /\ (outcome = "XGC_Loader_Error") <=>
                \/ FileDimension # dimension
                \/ FileDimension = 3 /\ FileMesh # equilibrium_mesh
          /\ outcome = "ok" =>
                \A e \in SavedOnGrid :
                    e[2] \in DOMAIN on_grid /\ on_grid[e[2]] = nefile[e[1]]

\* a 3D loader with the '2D' equilibrium mesh loads a file of its own kind:
\* the load completes and restores the saved on-grid arrays other than the
\* two temperatures
RoundTrip3DSameGeometry ==
    (pc = "load_done" /\ dimension = 3 /\ equilibrium_mesh = "2D"
        /\ FileDimension = 3 /\ FileMesh = "2D") =>
        /\ outcome = "ok"
        /\ \A e \in SavedOnGrid :
              e[1] \notin {"Te0", "Ti0"} => on_grid[e[2]] = nefile[e[1]]

\* ----------------------------------------------------------------- C21
\* C21: for either field direction, every phi in [0, 2*pi) and P >= 2, prev
\* and next are in 0..P-1 and differ by 1 modulo P; with a counter-current
\* field next = floor(phi*P/(2*pi)) and prev = (next + 1) mod P; and a point
\* in the last or in the first plane gap of the turn has plane 0 as one of
\* its two planes.
C21_CyclicallyAdjacent ==
    (pc = "planes_done" /\ n_plane >= 2) =>
        \A i \in DOMAIN phi3D :
            /\ prevplane[i] \in 0 .. (n_plane - 1)
            /\ nextplane[i] \in 0 .. (n_plane - 1)
            /\ (prevplane[i] - nextplane[i]) % n_plane \in {1, n_plane - 1}
            /\ ~CO_DIR =>
                  /\ nextplane[i] = phi3D[i] \div dPhi
                  /\ prevplane[i] = (nextplane[i] + 1) % n_plane
            /\ (phi3D[i] < dPhi \/ phi3D[i] >= TwoPi(n_plane) - dPhi) =>
                  0 \in {prevplane[i], nextplane[i]}

\* a counter-current bracketing of a point just below 2*pi, whose previous
\* plane wraps to 0, together with a point on plane 0
C21_Witness ==
    /\ pc = "planes_done" /\ ~CO_DIR /\ n_plane >= 2
    /\ Len(phi3D) = 2
    /\ phi3D[1] = TwoPi(n_plane) - 1 /\ phi3D[2] = 0
    /\ prevplane[1] = 0 /\ nextplane[1] = n_plane - 1
    /\ prevplane[2] = 1 /\ nextplane[2] = 0

\* ----------------------------------------------------------------- C23
\* x is 0 or has the sign sgn
ZeroOrSigned(x, sgn) == x * sgn >= 0

\* C23: at the entry of the tracer, for every query point the forward
\* offset is 0 or has the sign of FWD_sign, the backward offset is 0 or has
\* the sign of BWD_sign, each is at most 2*pi/P in magnitude and the two
\* magnitudes add up to 2*pi/P, also when the pair of planes wraps through
\* plane 0.
C23_AngularOffsets ==
    [][(pc = "planes_done" /\ pc' = "fwd") =>
          \A i \in Pts :
              /\ ZeroOrSigned(phiFWD'[i], FWD_sign)
              /\ ZeroOrSigned(phiBWD'[i], BWD_sign)
              /\ Abs(phiFWD'[i]) <= dPhi
              /\ Abs(phiBWD'[i]) <= dPhi
              /\ Abs(phiFWD'[i]) + Abs(phiBWD'[i]) = dPhi]_vars

\* the tracer is entered with a counter-current field for a point whose
\* planes wrap through plane 0
C23_Witness ==
    /\ pc = "fwd" /\ ~CO_DIR /\ n_plane >= 2
    /\ \A i \in Pts : ind[i] /\ s_FWD[i] = 0
    /\ prevplane[1] = 0 /\ nextplane[1] = n_plane - 1
    /\ phiBWD[1] > 0 /\ phiFWD[1] < 0
    /\ phiBWD[1] - phiFWD[1] = dPhi

\* ----------------------------------------------------------------- C22
\* C22: the while-loops of the tracer terminate for every batch of query
\* points the loader traces: no constructor or change_grid call is left
\* hanging in a trace, because for the installed 3D grid and the stored plane
\* index table no remaining angle is stepped away from zero.
C22_TracerTerminates ==
    /\ outcome # "hang"
    /\ (pc \in {"loaded", "hung"} /\ dimension = 3 /\ grid.cyl
            /\ Len(prevplane) = Len(grid.phi)) =>
          ~TraceDiverges(n_plane, CO_DIR, grid.phi, prevplane, nextplane)

\* with the plane index table of the grid: during a trace the remaining angle
\* is 0 or has the sign of the trace and is at most 2*pi/P, so at most Nstep
\* sub-steps of at most dphi remain, and after the trace it is exactly 0
RemainingAngleBounded ==
    /\ pc = "fwd" =>
          \A i \in Pts :
              /\ ZeroOrSigned(phiFWD[i], FWD_sign) /\ Abs(phiFWD[i]) <= Nstep * dphi
              /\ Abs(StepSize(phiFWD[i], FWD_sign)) <= dphi
              /\ ~ind[i] => phiFWD[i] = 0
    /\ pc = "bwd" =>
          \A i \in Pts :
              /\ phiFWD[i] = 0
              /\ ZeroOrSigned(phiBWD[i], BWD_sign) /\ Abs(phiBWD[i]) <= Nstep * dphi
              /\ Abs(StepSize(phiBWD[i], BWD_sign)) <= dphi
              /\ ~ind[i] => phiBWD[i] = 0
    /\ pc \in {"traced", "done"} => \A i \in Pts : phiFWD[i] = 0 /\ phiBWD[i] = 0

\* every iteration of a loop brings the remaining angle of every point that
\* is still traced strictly closer to 0 (or finds it there), so the loops end
RemainingAngleDecreases ==
    [][/\ (pc = "fwd" /\ pc' = "fwd") =>
            \A i \in Pts : ind[i] =>
                \/ Abs(phiFWD'[i]) < Abs(phiFWD[i])
                \/ phiFWD[i] = 0 /\ phiFWD'[i] = 0
       /\ (pc = "bwd" /\ pc' = "bwd") =>
            \A i \in Pts : ind[i] =>
                \/ Abs(phiBWD'[i]) < Abs(phiBWD[i])
                \/ phiBWD[i] = 0 /\ phiBWD'[i] = 0]_vars

\* ----------------------------------------------------------------- C24
\* a fraction with positive denominator is >= 0
NonNegative(x) == x.n >= 0
\* ne0 + dne_ad + nane of cross-section j, time step i, node n (nane when
\* the run has electrons)
TotalElectronDensity(j, i, n) ==
    LET ad == RatAdd(ne0[n], dne_ad[j][i][n])
    IN  IF HaveElectron THEN RatAdd(ad, fluc.nane[j][i][n]) ELSE ad
TotalIonDensity(j, i, n) == RatAdd(ni0[n], fluc.dni[j][i][n])

\* C24: after calculate_dne_ad_2D3D with Fluc_Filtering the total electron
\* density ne0 + dne_ad + nane, and with ions loaded the total ion density
\* ni0 + dni, is non-negative at every node, cross-section and time step.
C24_NonNegativeDensity ==
    (pc = "filtered" /\ Fluc_Filtering) =>
        \A j \in DOMAIN dne_ad : \A i \in DOMAIN dne_ad[j] : \A n \in MeshNodes :
            /\ NonNegative(TotalElectronDensity(j, i, n))
            /\ load_ions => NonNegative(TotalIonDensity(j, i, n))

\* the same for the totals that hold one perturbation only: the ion density,
\* and the electron density of a run without non-adiabatic electrons
SingleFluctuationNonNegative ==
    (pc = "filtered" /\ Fluc_Filtering) =>
        \A j \in DOMAIN dne_ad : \A i \in DOMAIN dne_ad[j] : \A n \in MeshNodes :
            /\ ~HaveElectron => NonNegative(TotalElectronDensity(j, i, n))
            /\ load_ions => NonNegative(TotalIonDensity(j, i, n))

\* ----------------------------------------------------------------- C27
\* the largest number of mesh nodes
MaxNodes == 3

\* np.nonzero(b)[0]: the indices at which b holds, ascending
Nonzero(b) == SortedSeq({j \in DOMAIN b : b[j]})

\* the body of the loop with the last of the found nodes taken
PrevNodeLast(nn, i) ==
    LET prevnodes == Nonzero([j \in DOMAIN nn |-> nn[j] = i])
    IN  IF Len(prevnodes) > 0 THEN prevnodes[Len(prevnodes)] ELSE 0 - 1
\* load_mesh_psi_3D lines 646-650, the body of the loop for node i
PrevNodeOf(nn, i) ==
    LET prevnodes == Nonzero([j \in DOMAIN nn |-> nn[j] = i])
    IN  IF Len(prevnodes) > 0 THEN prevnodes[1] ELSE 0 - 1

\* load_mesh_psi_3D lines 642-650: self.nextnode is read and self.prevnode
\* filled by the loop over range(len(self.nextnode))
load_mesh_psi_3D ==
    /\ pc = "mesh"
    /\ prevnode' = [i \in DOMAIN nextnode |-> PrevNodeOf(nextnode, i)]
    /\ pc' = "mesh_loaded"
    /\ UNCHANGED <<nextnode, passVars, gridVars, planeVars, traceVars, loaderVars,
                   flucVars, interpVars, eqVars, auxVars, request>>

\* the loader about to read the mesh file: nextnode gives every node the
\* index of a node, or -1
InitMesh ==
    /\ pc = "mesh"
    /\ \E N \in 0 .. MaxNodes : nextnode \in [0 .. (N - 1) -> (0 - 1) .. (N - 1)]
    /\ prevnode = <<>>
    /\ PassIdle
    /\ n_plane = 1 /\ CO_DIR = TRUE
    /\ phi3D = <<>> /\ r3D = <<>> /\ z3D = <<>>
    /\ Bfield = NoField /\ maskData = "nan"
    /\ prevplane = <<>> /\ nextplane = <<>>
    /\ TraceIdle
    /\ LoaderIdle
    /\ FlucIdle
    /\ InterpIdle
    /\ EqIdle
    /\ phi_on_grid = <<>> /\ te0 = <<>> /\ Fluc_Filtering = FALSE
    /\ back_interp = <<>> /\ check_report = <<>> /\ nefile = <<>>
    /\ request = NoGrid

NextMesh == load_mesh_psi_3D

SpecMesh == InitMesh /\ [][NextMesh]_vars

\* the nodes whose next node is i
Predecessors(i) == {j \in DOMAIN nextnode : nextnode[j] = i}

\* C27: after load_mesh_psi_3D, for every mesh node i, prevnode[i] = -1
\* exactly when no node j has nextnode[j] = i; otherwise prevnode[i] is the
\* smallest j with nextnode[j] = i, so nextnode[prevnode[i]] = i.
C27_PrevNode ==
    pc = "mesh_loaded" =>
        /\ DOMAIN prevnode = DOMAIN nextnode
        /\ \A i \in DOMAIN nextnode :
              /\ prevnode[i] = 0 - 1 <=> Predecessors(i) = {}
              /\ Predecessors(i) # {} =>
                    /\ prevnode[i] \in Predecessors(i)
                    /\ \A j \in Predecessors(i) : prevnode[i] <= j
                    /\ nextnode[prevnode[i]] = i

\* a loaded mesh with a node that two nodes lead to, the larger of them not
\* the last node, and a node that no node leads to
C27_Witness ==
    /\ pc = "mesh_loaded"
    /\ \E i \in DOMAIN nextnode : Cardinality(Predecessors(i)) >= 2
    /\ \E i \in DOMAIN nextnode : Predecessors(i) = {} /\ prevnode[i] = 0 - 1

\* ----------------------------------------------------------------- C28
\* The attributes the steps of a pass hand to one another.  One name stands
\* for attributes that are always assigned together: triangulation for
\* points, Delaunay, triangulation, trifinder and mesh; psi for psi and
\* psi_interp; B_interp for the 2D loader's B, B_total, B_interp; BRZPhi_interp
\* for the 3D loader's BR_, BZ_, BPhi_interp; phi3D for the grid's r3D, z3D,
\* phi3D; prevplane for prevplane and nextplane; eq for te0, ne0, ti0, ni0
\* and their splines; planes for planes and center_planes; on_grid for the
\* arrays on the grid other than dni_ad_on_grid and nane_on_grid.
Attrs ==
    {"triangulation", "psi", "B_interp", "BRZPhi_interp", "n_plane", "CO_DIR", "phi3D",
     "prevplane", "HaveElectron", "eq", "planes", "phi", "nane", "dni", "dne_ad",
     "dni_ad_on_grid", "nane_on_grid", "on_grid"}

When(b, S) == IF b THEN S ELSE {}

\* the attributes a step reads before it has assigned them itself
Reads(step) ==
    CASE step = "ToCylindrical" -> {}
      [] step = "load_mesh_2D" -> {}
      [] step = "load_psi_2D" -> {"triangulation"}                   \* line 626
      [] step = "load_B_2D" -> {"triangulation"}                     \* line 676
      [] step = "load_mesh_psi_3D" -> {}
      [] step = "load_B_3D" -> {"triangulation"}                     \* line 691
      [] step = "get_interp_planes" -> {"n_plane", "CO_DIR", "phi3D"} \* lines 23-26
      [] step = "load_eq_2D3D" -> {"psi"}                            \* line 984
      [] step = "load_fluctuations_2D_all" -> {"HaveElectron", "triangulation"}
      [] step = "load_fluctuations_2D_fluc_only" ->                  \* 772, 773, 826
            {"HaveElectron", "triangulation", "eq"}
      [] step = "load_fluctuations_3D_all" ->                        \* 847-850, 865
            {"prevplane", "HaveElectron", "triangulation", "n_plane"}
      [] step = "load_fluctuations_3D_fluc_only" ->                  \* 903-908, 944
            {"prevplane", "HaveElectron", "triangulation", "eq"}
      [] step = "calculate_dne_ad_2D3D" ->                           \* 1016-1033
            {"eq", "phi", "HaveElectron"} \cup When(HaveElectron, {"nane"})
                \cup When(load_ions, {"dni"})
      [] step = "interpolate_all_on_grid_2D" ->                      \* 1052-1116
            {"psi", "triangulation", "B_interp", "eq", "HaveElectron", "phi", "dne_ad"}
                \cup When(HaveElectron, {"nane"}) \cup When(load_ions, {"dni"})
      [] step = "interp_check" -> {"triangulation", "dne_ad", "nane", "nane_on_grid"}
                                                                     \* 1310-1326
      [] step = "interpolate_all_on_grid_3D" ->                      \* 1127-1274
            {"phi3D", "psi", "BRZPhi_interp", "eq", "triangulation", "HaveElectron",
             "n_plane", "CO_DIR", "planes", "prevplane", "dne_ad"}
                \cup When(HaveElectron, {"nane"})
                \cup When(load_ions, {"dni", "dni_ad_on_grid"})      \* line 1226

\* the attributes a step assigns
Writes(step) ==
    CASE step = "ToCylindrical" -> {"phi3D"}
      [] step = "load_mesh_2D" -> {"triangulation"}
      [] step = "load_psi_2D" -> {"psi"}
      [] step = "load_B_2D" -> {"B_interp"}
      [] step = "load_mesh_psi_3D" -> {"triangulation", "psi", "n_plane"}
      [] step = "load_B_3D" -> {"BRZPhi_interp", "CO_DIR"}
      [] step = "get_interp_planes" -> {"prevplane"}
      [] step = "load_eq_2D3D" -> {"HaveElectron", "eq"}
      [] step \in {"load_fluctuations_2D_all", "load_fluctuations_2D_fluc_only"} ->
            {"n_plane", "planes", "phi"} \cup When(HaveElectron, {"nane"})
                \cup When(load_ions, {"dni"})
      [] step = "load_fluctuations_3D_all" ->
            {"planes", "phi"} \cup When(HaveElectron, {"nane"}) \cup When(load_ions, {"dni"})
      [] step = "load_fluctuations_3D_fluc_only" ->
            {"n_plane", "planes", "phi"} \cup When(HaveElectron, {"nane"})
                \cup When(load_ions, {"dni"})
      [] step = "calculate_dne_ad_2D3D" -> {"dne_ad"}
      [] step = "interpolate_all_on_grid_2D" ->
            {"on_grid", "dni_ad_on_grid"} \cup When(HaveElectron, {"nane_on_grid"})
      [] step = "interp_check" -> {}
      [] step = "interpolate_all_on_grid_3D" ->
            {"on_grid"} \cup When(HaveElectron, {"nane_on_grid"})

\* __init__ lines 466-485 and change_grid lines 576-595
FullLoad2D ==
    <<"load_mesh_2D", "load_psi_2D", "load_B_2D", "load_eq_2D3D",
      IF Fluc_Only THEN "load_fluctuations_2D_fluc_only" ELSE "load_fluctuations_2D_all",
      "calculate_dne_ad_2D3D", "interpolate_all_on_grid_2D", "interp_check">>
\* __init__ lines 488-518 and change_grid lines 535-565
FullLoad3D ==
    <<"ToCylindrical", "load_mesh_psi_3D", "load_B_3D", "get_interp_planes", "load_eq_2D3D",
      IF Fluc_Only THEN "load_fluctuations_3D_fluc_only" ELSE "load_fluctuations_3D_all",
      "calculate_dne_ad_2D3D", "interpolate_all_on_grid_3D">>

\* the attributes assigned so far become those of an earlier pass
Aged == [a \in Attrs |-> IF written[a] = "unset" THEN "unset" ELSE "earlier"]

\* XGC_Loader(..., grid, Full_Load = True): the pass of the constructor begins
BeginConstruct ==
    /\ pc = "new"
    /\ \E d \in {2, 3} :
          /\ dimension' = d
          /\ todo' = IF d = 2 THEN FullLoad2D ELSE FullLoad3D
    /\ pc' = "constructing"
    /\ UNCHANGED <<written, Fluc_Only, nextnode, prevnode, gridVars, planeVars, traceVars,
                   grid, planes, on_grid, outcome, flucVars, interpVars, eqVars, auxVars,
                   request>>

\* change_grid(grid) on a loader whose last call is over: lines 530-537 and
\* 571-578
BeginChangeGrid ==
    /\ pc = "idle"
    /\ \E d \in {2, 3} :
          /\ dimension' = d
          /\ todo' = IF d = dimension
                     THEN IF d = 2 THEN <<"interpolate_all_on_grid_2D", "interp_check">>
                          ELSE <<"interpolate_all_on_grid_3D">>
                     ELSE IF d = 2 THEN FullLoad2D ELSE FullLoad3D
          /\ pc' = IF d = dimension THEN "regridding" ELSE "reloading"
    /\ written' = Aged
    /\ UNCHANGED <<Fluc_Only, nextnode, prevnode, gridVars, planeVars, traceVars,
                   grid, planes, on_grid, outcome, flucVars, interpVars, eqVars, auxVars,
                   request>>

\* the next step of the pass is called: it raises AttributeError at the
\* first attribute it reads that was never assigned, and the call is over;
\* a constructor that raises leaves no loader
StepOfPass ==
    /\ pc \in {"constructing", "reloading", "regridding"}
    /\ todo # <<>>
    /\ LET step == Head(todo)
           raises == \E a \in Reads(step) : written[a] = "unset"
       IN  /\ written' = IF raises THEN written
                         ELSE [a \in Attrs |-> IF a \in Writes(step) THEN "pass" ELSE written[a]]
           /\ todo' = IF raises THEN <<>> ELSE Tail(todo)
           /\ outcome' = IF raises THEN "AttributeError"
                         ELSE IF Tail(todo) = <<>> THEN "ok" ELSE outcome
           /\ pc' = IF raises THEN (IF pc = "constructing" THEN "failed" ELSE "idle")
                    ELSE IF Tail(todo) = <<>> THEN "idle" ELSE pc
    /\ UNCHANGED <<Fluc_Only, nextnode, prevnode, gridVars, planeVars, traceVars,
                   grid, dimension, planes, on_grid, flucVars, interpVars, eqVars, auxVars,
                   request>>

\* no loader constructed yet; the run has electrons or not, the user asks
\* for ions or not, and for the fluctuating part only or not
InitPass ==
    /\ pc = "new"
    /\ written = [a \in Attrs |-> "unset"]
    /\ todo = <<>>
    /\ Fluc_Only \in BOOLEAN
    /\ nextnode = <<>> /\ prevnode = <<>>
    /\ n_plane = 1 /\ CO_DIR = TRUE
    /\ phi3D = <<>> /\ r3D = <<>> /\ z3D = <<>>
    /\ Bfield = NoField /\ maskData = "nan"
    /\ prevplane = <<>> /\ nextplane = <<>>
    /\ TraceIdle
    /\ LoaderIdle
    /\ time_steps = 1 /\ n_cross_section = 1
    /\ HaveElectron \in BOOLEAN
    /\ load_ions \in BOOLEAN
    /\ files = <<>> /\ center_planes = <<>> /\ fluc = <<>>
    /\ ne0 = <<>> /\ ni0 = <<>>
    /\ InterpIdle
    /\ EqIdle
    /\ phi_on_grid = <<>> /\ te0 = <<>> /\ Fluc_Filtering = FALSE
    /\ back_interp = <<>> /\ check_report = <<>> /\ nefile = <<>>
    /\ request = NoGrid

NextPass ==
    \/ BeginConstruct
    \/ BeginChangeGrid
    \/ StepOfPass

SpecPass == InitPass /\ [][NextPass]_vars

\* the place of a step in the order mesh/psi, B field, cylindrical
\* coordinates and plane bracketing, equilibrium profiles, fluctuations,
\* adiabatic response, grid interpolation
Rank(step) ==
    CASE step \in {"load_mesh_2D", "load_psi_2D", "load_mesh_psi_3D"} -> 1
      [] step \in {"load_B_2D", "load_B_3D"} -> 2
      [] step \in {"ToCylindrical", "get_interp_planes"} -> 3
      [] step = "load_eq_2D3D" -> 4
      [] step \in {"load_fluctuations_2D_all", "load_fluctuations_2D_fluc_only",
                   "load_fluctuations_3D_all", "load_fluctuations_3D_fluc_only"} -> 5
      [] step = "calculate_dne_ad_2D3D" -> 6
      [] OTHER -> 7

InOrder(steps) == \A m \in DOMAIN steps, n \in DOMAIN steps : m < n => Rank(steps[m]) <= Rank(steps[n])

\* the step being called in a pass that loads the data again
LoadingStep == pc \in {"constructing", "reloading"} /\ todo # <<>>

\* C28: in every pass of the constructor and of change_grid that loads the
\* data, the steps run in the order mesh/psi, B field, (3D) cylindrical
\* coordinates and plane bracketing, equilibrium, fluctuations, adiabatic
\* response, interpolation, and every attribute a step reads was assigned by
\* an earlier step of the same pass: none is unset or left from an earlier
\* pass.
C28_LoadOrdering ==
    LoadingStep =>
        /\ InOrder(todo)
        /\ \A a \in Reads(Head(todo)) : written[a] = "pass"

\* what holds instead: the steps other than ToCylindrical are in that order,
\* and the only attributes read unset or from an earlier pass are
\* dni_ad_on_grid by the 3D interpolation and nane, nane_on_grid by
\* interp_check
OrderedButForKnownReads ==
    LoadingStep =>
        /\ InOrder(SelectSeq(todo, LAMBDA st : st # "ToCylindrical"))
        /\ \A a \in Reads(Head(todo)) :
              written[a] # "pass" =>
                  \/ Head(todo) = "interpolate_all_on_grid_3D" /\ a = "dni_ad_on_grid"
                  \/ Head(todo) = "interp_check" /\ a \in {"nane", "nane_on_grid"}

\* ----------------------------------------------------------------- C29
\* Cartesian3D.ToCylindrical in floating point.  Lengths are integers with
\* two magnitudes, TinyLen and UnitLen; angles are integers with pi = PiF.
\* The representable angles are spaced as floating-point numbers are: the
\* spacing doubles from one binade to the next (1 rad is about 20 units), and
\* a sum is rounded to the nearest representable angle.
TinyLen == 1
UnitLen == 16
Coord == {0 - UnitLen, 0 - TinyLen, 0, TinyLen, UnitLen}
PiF == 64
TwoPiF == 2 * PiF
HalfPiF == PiF \div 2

\* the spacing of the representable angles around a
Spacing(a) ==
    IF Abs(a) >= 82 THEN 16          \* [4, 8) rad
    ELSE IF Abs(a) >= 41 THEN 8      \* [2, 4)
    ELSE IF Abs(a) >= 21 THEN 4      \* [1, 2)
    ELSE IF Abs(a) >= 11 THEN 2      \* [1/2, 1)
    ELSE 1
\* the representable angle nearest to a (no tie occurs on the values below)
RoundF(a) ==
    LET sp == Spacing(a)
        lo == (a \div sp) * sp
    IN  IF 2 * (a - lo) < sp THEN lo ELSE lo + sp
\* the sum of two angles as it is stored
AddF(a, b) == RoundF(a + b)
\* the sum of two angles without rounding
AddExact(a, b) == a + b

\* np.sign
Sign(x) == IF x > 0 THEN 1 ELSE IF x < 0 THEN 0 - 1 ELSE 0

\* np.arctan(n / d) for lengths n, d # 0 of the two magnitudes: the angle of
\* the ratio, rounded to a representable angle
ArcTan(n, d) ==
    LET sg == Sign(n) * Sign(d)
    IN  IF n = 0 THEN 0
        ELSE IF Abs(n) = Abs(d) THEN sg * (HalfPiF \div 2)
        ELSE IF Abs(n) < Abs(d) THEN sg * 1        \* arctan(1/16): 1.3 units
        ELSE sg * HalfPiF                           \* arctan(16): 30.7 units

\* Grid.py lines 461-466 for one point with coordinates X, Z
PHI3D(X, Z) ==
    LET p1 == IF X = 0 THEN (0 - HalfPiF) * Sign(Z) ELSE 0              \* 461-462
        p2 == IF X # 0 THEN ArcTan(0 - Z, X) ELSE p1                       \* 463-464
        p3 == IF X < 0 THEN AddF(p2, PiF) ELSE p2                          \* 465
    IN  IF p3 < 0 THEN AddF(p3, TwoPiF) ELSE p3                            \* 466

\* the flattened arrays of a grid with the axes X1D, Y1D, Z1D, of shape
\* (NZ, NY, NX): Grid.py lines 428-432
FlatIndex(X1D, Y1D, Z1D) == 1 .. (Len(X1D) * Len(Y1D) * Len(Z1D))
X3DOf(X1D, Y1D, Z1D) ==
    [n \in FlatIndex(X1D, Y1D, Z1D) |-> X1D[((n - 1) % Len(X1D)) + 1]]
Y3DOf(X1D, Y1D, Z1D) ==
    [n \in FlatIndex(X1D, Y1D, Z1D) |-> Y1D[(((n - 1) \div Len(X1D)) % Len(Y1D)) + 1]]
Z3DOf(X1D, Y1D, Z1D) ==
    [n \in FlatIndex(X1D, Y1D, Z1D) |-> Z1D[((n - 1) \div (Len(X1D) * Len(Y1D))) + 1]]

\* an axis of one or two increasing coordinates
Axes(S) == {<<x>> : x \in S} \cup {<<p[1], p[2]>> : p \in {q \in S \X S : q[1] < q[2]}}

\* grid.ToCylindrical(), Grid.py lines 455-466: the arrays are created
\* unless phi3D exists already
ToCylindricalCall ==
    /\ pc \in {"cartesian", "cylindrical"}
    /\ IF DOMAIN phi3D = {}
       THEN /\ r3D' = [n \in DOMAIN grid.X3D |->
                         ISqrt(grid.X3D[n] * grid.X3D[n] + grid.Z3D[n] * grid.Z3D[n])]
            /\ z3D' = grid.Y3D
            /\ phi3D' = [n \in DOMAIN grid.X3D |-> PHI3D(grid.X3D[n], grid.Z3D[n])]
       ELSE UNCHANGED <<r3D, z3D, phi3D>>
    /\ pc' = "cylindrical"
    /\ UNCHANGED <<n_plane, CO_DIR, Bfield, maskData, planeVars, traceVars, nonTraceVars>>

\* a Cartesian3D grid as its constructor leaves it
InitCartesian ==
    /\ pc = "cartesian"
    /\ \E X1D \in Axes(Coord), Y1D \in Axes({0, 1}), Z1D \in Axes(Coord) :
          grid = [kind |-> "3D", X3D |-> X3DOf(X1D, Y1D, Z1D), Y3D |-> Y3DOf(X1D, Y1D, Z1D),
                  Z3D |-> Z3DOf(X1D, Y1D, Z1D)]
    /\ phi3D = <<>> /\ r3D = <<>> /\ z3D = <<>>
    /\ n_plane = 1 /\ CO_DIR = TRUE
    /\ Bfield = NoField /\ maskData = "nan"
    /\ prevplane = <<>> /\ nextplane = <<>>
    /\ TraceIdle
    /\ dimension = 0 /\ planes = <<>> /\ on_grid = <<>> /\ outcome = "none"
    /\ FlucIdle
    /\ InterpIdle
    /\ EqIdle
    /\ AuxIdle

NextCartesian == ToCylindricalCall

SpecCartesian == InitCartesian /\ [][NextCartesian]_vars

\* the angle phi in [0, 2*pi) with X = r*cos(phi), Z = -r*sin(phi), to the
\* precision of the angles: the quadrant from the signs, the angle within it
\* from the ratio of the magnitudes
ExactAngle(X, Z) ==
    LET t(opp, adj) == IF opp = 0 THEN 0
                       ELSE IF adj = 0 THEN HalfPiF
                       ELSE IF Abs(opp) = Abs(adj) THEN HalfPiF \div 2
                       ELSE IF Abs(opp) < Abs(adj) THEN 1 ELSE HalfPiF - 1
    IN  IF X > 0 /\ Z <= 0 THEN t(Z, X)                    \* sin >= 0, cos > 0
        ELSE IF X <= 0 /\ Z < 0 THEN HalfPiF + t(X, Z)     \* sin > 0, cos <= 0
        ELSE IF X < 0 /\ Z >= 0 THEN PiF + t(Z, X)         \* sin <= 0, cos < 0
        ELSE IF X >= 0 /\ Z > 0 THEN 3 * HalfPiF + t(X, Z) \* sin < 0, cos >= 0
        ELSE 0                                             \* X = Z = 0
\* phi is that angle up to the rounding of one stored sum
IsAngleOf(phi, X, Z) == 2 * Abs(phi - ExactAngle(X, Z)) <= Spacing(phi)

\* C29: after ToCylindrical, for every grid point, phi3D lies in [0, 2*pi)
\* and is the angle with X = r*cos(phi) and Z = -r*sin(phi), X = 0, Z = 0 and
\* X < 0 included; r3D = sqrt(X^2 + Z^2) and z3D = Y.
C29_ToCylindrical ==
    pc = "cylindrical" =>
        \A n \in DOMAIN grid.X3D :
            /\ 0 <= phi3D[n] /\ phi3D[n] < TwoPiF
            /\ IsAngleOf(phi3D[n], grid.X3D[n], grid.Z3D[n])
            /\ r3D[n] = ISqrt(grid.X3D[n] * grid.X3D[n] + grid.Z3D[n] * grid.Z3D[n])
            /\ z3D[n] = grid.Y3D[n]

\* what holds instead: phi3D lies in [0, 2*pi], 2*pi included, and is the
\* angle up to rounding; r3D and z3D are as stated
ToCylindricalClosedRange ==
    pc = "cylindrical" =>
        \A n \in DOMAIN grid.X3D :
            /\ 0 <= phi3D[n] /\ phi3D[n] <= TwoPiF
            /\ IsAngleOf(phi3D[n], grid.X3D[n], grid.Z3D[n])
            /\ r3D[n] = ISqrt(grid.X3D[n] * grid.X3D[n] + grid.Z3D[n] * grid.Z3D[n])
            /\ z3D[n] = grid.Y3D[n]
\* with sums that are not rounded phi3D stays below 2*pi
ExactSumsInRange ==
    \A X \in Coord, Z \in Coord :
        LET p2 == IF X # 0 THEN ArcTan(0 - Z, X) ELSE (0 - HalfPiF) * Sign(Z)
            p3 == IF X < 0 THEN AddExact(p2, PiF) ELSE p2
            p4 == IF p3 < 0 THEN AddExact(p3, TwoPiF) ELSE p3
        IN  0 <= p4 /\ p4 < TwoPiF

============================================================================
